---- MODULE Spec2Model ----
(***************************************************************************)
(* AquaSense-AI real-time monitoring core.                                 *)
(*                                                                         *)
(*   src/main.py        MonitorScreen: acquisition cycle, alert arbitration *)
(*   src/transmitter.py BluetoothTransmitter: the signal sink               *)
(*   src/detect.py      RealtimeDetector: asynchronous detection pipeline   *)
(*   src/perimeter.py   PerimeterMonitor: obstruction engine, scanning loop *)
(*                                                                         *)
(* time.time() is the variable now, counted in ticks of 1/TicksPerSecond   *)
(* second: a duration of s seconds is s * TicksPerSecond ticks, and a      *)
(* comparison with a duration that is not a whole number of ticks          *)
(* (min_processing_interval = 1/target_fps) is made exactly, by cross      *)
(* multiplication.  The clock starts at Epoch, far from the zero the code  *)
(* initialises its timestamps with.                                        *)
(*                                                                         *)
(* The specifications share the variables, each leaving the groups it does *)
(* not use unchanged.  The session starts on the monitor window before     *)
(* start_monitoring has run, in any state the setup screen can leave, and  *)
(* runs start_monitoring, monitor_loop, the test buttons and               *)
(* stop_monitoring as callbacks of the window, beside the worker thread of *)
(* the detector.  detect_frame holds no lock: it is one step for each of   *)
(* its reads and writes of shared state, the worker thread likewise, and   *)
(* the clock moves between them.  SpecArb is the session of any setup;     *)
(* SpecHold and SpecDrown are the session of a connected transmitter,      *)
(* under the bounds of clock and frames that let an obstruction outlast    *)
(* its minimum duration and the worker infer twice.  A session whose       *)
(* RealtimeDetector cannot be constructed runs the BasicDetector, in the   *)
(* same specifications.  SpecDet, SpecEsc and SpecEscFair run detect_frame *)
(* against the worker thread of the constructor; SpecThreads adds          *)
(* start_processing_thread and cleanup, with threads of _processing_loop   *)
(* side by side.  SpecTx and SpecPulse are the transmitter, statement by   *)
(* statement, with its connect thread and its pulse threads.  SpecScan,    *)
(* SpecCfg, SpecCheck, SpecProbe, SpecLock and SpecLockFair are the        *)
(* perimeter engine: the owner calls its public operations, each one step  *)
(* for each of its statements that another thread can see, beside the      *)
(* scanning threads, whose iterations are split likewise down to the       *)
(* statements of _check_obstruction_internal.                              *)
(***************************************************************************)
EXTENDS Integers, Sequences, FiniteSets, TLC

\* ------------------------------------------------------------------------
\* Program constants
\* ------------------------------------------------------------------------

\* detect.py:13  target_fps default
target_fps == 15

\* detect.py:17  self.event_hold_seconds = 1.0
event_hold_seconds == 1

\* detect.py:20  self.frame_skip = 2
frame_skip == 2

\* detect.py:26  Queue(maxsize=1)
detection_queue_maxsize == 1

\* main.py:811  self.perimeter_interval = 2.0
perimeter_interval == 2

\* main.py:818  self.obstruction_min_duration = 6.0
obstruction_min_duration == 6

\* main.py:1182  current_obstruction = obstructed and percentage >= 40.0
arbitration_min_percentage == 40

\* perimeter.py:34  self.obstruction_threshold = 80.0
obstruction_threshold == 80

\* perimeter.py:240  percentage > 5
significant_min_percentage == 5

\* perimeter.py:546  required_consecutive = 2
required_consecutive == 2

\* perimeter.py:457, 474  len(points) < 3
min_perimeter_points == 3

\* perimeter.py:43  self.difference_threshold = 45
difference_threshold == 45

\* perimeter.py:42  self.min_contour_area = 1500
min_contour_area == 1500

\* perimeter.py:35, 522  check_interval = 0.3, in tenths of a second
default_check_interval == 3

\* perimeter.py:617  self.monitoring_thread.join(timeout=2.0), in tenths of
\* a second
join_timeout == 20

\* main.py:823  self.max_detection_errors
max_detection_errors == 5

\* Commands written to the sink (transmitter.py:77, 83, 89).
CMD_CLEAR == 0
CMD_DROWNING == 1
CMD_OBSTRUCTION == 2

\* ------------------------------------------------------------------------
\* Bounds of the model
\* ------------------------------------------------------------------------

\* Resolution of the clock: ticks per second.
TicksPerSecond == 3

\* Value of time.time() when the session starts (ticks).
Epoch == 1000

\* The session clock runs for MaxSecondsArb seconds after Epoch, and
\* frame_counter runs up to MaxSessionFrames: one inference, and an
\* obstruction that is sampled while its drowning alert is on.
MaxSecondsArb == 3

MaxSessionFrames == 3

\* The session that outlasts obstruction_min_duration, no inference ending
\* meanwhile: MaxSecondsHold seconds of clock, frame_counter up to
\* MaxHoldFrames (the onset cycle, the sampled cycles, the release cycle).
MaxSecondsHold == 6

MaxHoldFrames == 4

\* The session that runs frame_counter up to MaxFrameCounter within
\* MaxSecondsDrown seconds: two inferences, the second after the hold of the
\* first.
MaxSecondsDrown == 2

\* Pixels inside the configured perimeter mask (cv2.countNonZero(self.mask)).
MaskArea == 5

\* The detector clock runs for MaxTicksDet ticks after Epoch: a call of
\* detect_frame inside the processing interval of the one before, and one
\* after it.
MaxTicksDet == 1

\* Distinct camera frames.
NumFrames == 2

\* Calls of detect_frame that pass the interval test (self.frame_counter).
MaxFrameCounter == 6

\* The same count in the session that runs up to the escalation.
MaxFrameCounterEsc == 16

\* Scanning threads created by start_continuous_monitoring.
MaxThreads == 2

\* Threads that run _processing_loop of one detector at the same time.
MaxWorkers == 2

\* Frames the frame source returns to the scanning loops; after them it
\* returns None.
MaxFrames == 3

\* Cap of consecutive_detections.
MaxConsecutive == 3

\* Pixels of an image in the perimeter engine.
NumPixels == 3

\* Vertices in a list of perimeter points.
MaxPoints == 4

\* Pulse threads created by start_obstruction_pulse.
MaxPulseThreads == 2

\* Raw reads remembered for each scanning thread: those of a rising edge
\* and the one before them.
MaxHistory == required_consecutive + 1

\* ------------------------------------------------------------------------
\* Time
\* ------------------------------------------------------------------------

Seconds(s) == s * TicksPerSecond

\* ------------------------------------------------------------------------
\* State
\* ------------------------------------------------------------------------

VARIABLES
    now,                        \* time.time(), in ticks
    \* --- MonitorScreen (main.py) ---
    root,                       \* self.root, the window and its event loop
    connecting,                 \* connect_thread of the setup screen is inside bt.connect
    running,                    \* self.running
    bluetooth_connected,        \* config['bluetooth_connected'] and config['bluetooth']
    perimeter_enabled,          \* mode == 'live' and use_perimeter and perimeter
    last_perimeter_check,       \* self.last_perimeter_check
    obstruction_alert_active,   \* self.obstruction_alert_active
    obstruction_start_time,     \* self.obstruction_start_time
    obstruction_signal_sent,    \* self.obstruction_signal_sent
    last_drowning_state,        \* self.last_drowning_state
    \* --- BluetoothTransmitter (transmitter.py) ---
    tx,                         \* [ser, connected, obstruction_pulsing, stop_pulse]
    sink,                       \* the last command the serial port received, if any
    \* --- observation of the last operation of the session: its inputs, the
    \*     state it started in, the sends it called, the commands written ---
    cyc,
    \* --- RealtimeDetector (detect.py) ---
    processing,                 \* self.processing
    detection_queue,            \* self.detection_queue, Queue(maxsize=1)
    last_valid_result,          \* self.last_valid_result
    last_event_time,            \* self.last_event_time
    last_detection_time,        \* self.last_detection_time
    frame_counter,              \* self.frame_counter
    worker,                     \* position of _processing_loop and its frame
    submitter,                  \* position of the caller inside detect_frame
    call,                       \* observation of the last detect_frame return
    inference,                  \* observation of the last inference of the worker
    detection_error_count,      \* MonitorScreen.detection_error_count
    using_fallback_detector,    \* MonitorScreen.using_fallback_detector
    \* --- PerimeterMonitor (perimeter.py) ---
    drawing_complete,           \* self.drawing_complete
    monitoring_active,          \* self.monitoring_active
    monitoring_thread,          \* self.monitoring_thread
    stop_flag,                  \* self.stop_flag
    obstruction_callback,       \* a callback is registered
    obstruction_detected,       \* self.obstruction_detected
    current_obstruction_pct,    \* self.current_obstruction_pct
    loops,                      \* the threads running monitoring_loop
    check_interval,             \* self.check_interval, in tenths of a second
    caller,                     \* position of the owner inside a call of the monitor
    notified,                   \* observation of the last callback invocation
    perimeter_points,           \* self.perimeter_points
    mask,                       \* self.mask
    reference_frame,            \* self.reference_frame
    detection_parameters,       \* difference_threshold, min_contour_area, obstruction_threshold
    api,                        \* observation of the last public call of the monitor
    earlier,                    \* an earlier check_obstruction call on the stored configuration
    sent,                       \* observation of the last call of the transmitter
    pulse_threads,              \* the threads running pulse_loop
    commander,                  \* position of the caller inside a call of the transmitter
    last_writer,                \* who wrote the last command the sink received
    yielded,                    \* frames get_frame_callback has returned
    lock                        \* the holder of PerimeterMonitor.lock

arbVars == <<root, connecting, running, bluetooth_connected, perimeter_enabled,
             last_perimeter_check, obstruction_alert_active,
             obstruction_start_time, obstruction_signal_sent,
             last_drowning_state, tx, sink, cyc>>

detVars == <<processing, detection_queue, last_valid_result, last_event_time,
             last_detection_time, frame_counter, worker, submitter, call,
             inference, detection_error_count, using_fallback_detector>>

scanVars == <<drawing_complete, monitoring_active, monitoring_thread,
              stop_flag, obstruction_callback, check_interval,
              obstruction_detected, current_obstruction_pct, loops, caller,
              notified, yielded>>

cfgVars == <<perimeter_points, mask, reference_frame, detection_parameters,
             api, earlier>>

txVars == <<sent, pulse_threads, commander, last_writer>>

lockVars == <<lock>>

vars == <<now, arbVars, detVars, scanVars, cfgVars, txVars, lockVars>>

\* ------------------------------------------------------------------------
\* BluetoothTransmitter
\*
\* tx holds the fields of the transmitter: ser (self.ser is an object),
\* is_open (that port is open), connected, obstruction_pulsing and
\* stop_pulse.  A channel value is those fields together with what one
\* operation of the session does to the serial port: budget is the number
\* of writes the port still accepts before ser.write raises, out the
\* commands written so far, ret the value returned by the last send.  The
\* operators on channels run the statements of a call one after another:
\* they are used where one thread alone calls the transmitter, as the
\* window thread of a session does (main.py never starts the pulse
\* thread, and no connect thread runs while connected is true).
\* ------------------------------------------------------------------------

\* Return values of the send methods: Python's True, False and None.
RetTrue == "True"

RetFalse == "False"

None == "None"

Channel(t, budget) ==
    [ser |-> t.ser, is_open |-> t.is_open, connected |-> t.connected,
     obstruction_pulsing |-> t.obstruction_pulsing,
     stop_pulse |-> t.stop_pulse,
     budget |-> budget, out |-> <<>>, ret |-> None]

Transmitter(ch) ==
    [ser |-> ch.ser, is_open |-> ch.is_open, connected |-> ch.connected,
     obstruction_pulsing |-> ch.obstruction_pulsing,
     stop_pulse |-> ch.stop_pulse]

\* transmitter.py:8-13
NewTransmitter ==
    [ser |-> FALSE, is_open |-> FALSE, connected |-> FALSE,
     obstruction_pulsing |-> FALSE, stop_pulse |-> FALSE]

\* transmitter.py:60-71; ser.write raises on a closed port.
_send_command(ch, command) ==
    IF ~ch.connected \/ ~ch.ser
    THEN [ch EXCEPT !.ret = RetFalse]
    ELSE IF ch.is_open /\ ch.budget > 0
         THEN [ch EXCEPT !.out = Append(@, command), !.budget = @ - 1,
                         !.ret = RetTrue]
         ELSE [ch EXCEPT !.connected = FALSE, !.ret = RetFalse]

\* transmitter.py:111-116
stop_obstruction_pulse(ch) ==
    IF ch.obstruction_pulsing
    THEN _send_command([ch EXCEPT !.obstruction_pulsing = FALSE,
                                  !.stop_pulse = TRUE], CMD_CLEAR)
    ELSE ch

\* transmitter.py:73-77
send_drowning_alert(ch) ==
    IF ch.connected
    THEN _send_command(stop_obstruction_pulse(ch), CMD_DROWNING)
    ELSE [ch EXCEPT !.ret = None]

\* transmitter.py:79-83
send_obstruction_alert(ch) ==
    IF ch.connected
    THEN _send_command(stop_obstruction_pulse(ch), CMD_OBSTRUCTION)
    ELSE [ch EXCEPT !.ret = None]

\* transmitter.py:85-89
send_clear_alert(ch) ==
    IF ch.connected
    THEN _send_command(stop_obstruction_pulse(ch), CMD_CLEAR)
    ELSE [ch EXCEPT !.ret = None]

Commands == {CMD_CLEAR, CMD_DROWNING, CMD_OBSTRUCTION}

AlertOps == {"send_drowning_alert", "send_obstruction_alert",
             "send_clear_alert"}

\* The send operations of the transmitter and the command each writes.
SendOps == AlertOps \cup {"send"}

\* transmitter.py:77, 83, 89, 53, 120: the command a call hands to
\* _send_command: its own for a send_*_alert, '0' for disconnect, the
\* argument for send.
SendCommand(op, command) ==
    CASE op = "send_drowning_alert" -> CMD_DROWNING
      [] op = "send_obstruction_alert" -> CMD_OBSTRUCTION
      [] op = "send_clear_alert" -> CMD_CLEAR
      [] op = "disconnect" -> CMD_CLEAR
      [] OTHER -> command

SendCall(op, ch) ==
    CASE op = "send_drowning_alert" -> send_drowning_alert(ch)
      [] op = "send_obstruction_alert" -> send_obstruction_alert(ch)
      [] OTHER -> send_clear_alert(ch)

\* ------------------------------------------------------------------------
\* BluetoothTransmitter: its threads, statement by statement
\*
\* The transmitter has no lock.  Three kinds of thread run its code: the
\* owner, who calls the send methods, disconnect, stop_obstruction_pulse
\* and start_obstruction_pulse; the thread in which connect() runs
\* (main.py:522-526); and the threads of pulse_loop, numbered in the order
\* of their creation.  One step is one statement.
\*
\* The owner's call (commander.pc) is at one of
\*   "stop_test"     before the test of stop_obstruction_pulse (113)
\*   "stop_unset"    before obstruction_pulsing = False (114)
\*   "stop_set"      before stop_pulse.set() (115)
\*   "stop_send"     before the test of its _send_command('0') (116, 62)
\*   "stop_write"    before the ser.write of that command (66)
\*   "stop_except"   the write raised, before connected = False (70)
\*   "ser_test"      disconnect, before if self.ser (52)
\*   "send"          before the test of the call's own _send_command (62)
\*   "write"         before its ser.write (66)
\*   "except"        the write raised, before connected = False (70)
\*   "close"         disconnect, before self.ser.close() (54)
\*   "finally"       disconnect, before connected = False (58)
\*   "start_set"     before obstruction_pulsing = True (96)
\*   "start_clear"   before stop_pulse.clear() (97)
\*   "start_thread"  before the thread is started (108)
\* A pulse thread is at one of the places of pulse_loop (99-106):
\*   "test"   the while test (100), after the second sleep
\*   "on"     before the test of _send_command('2') (101, 62)
\*   "check"  in the first sleep, before the test of stop_pulse (102-103)
\*   "off"    before the test of _send_command('0') (105, 62)
\*   "on_write", "off_write"    before the ser.write of the command (66)
\*   "on_except", "off_except"  the write raised, before connected = False
\*   "done"   the loop has ended
\* connecting is the place of the connect thread (24-46):
\*   "idle"     no thread is inside connect()
\*   "closing"  before if self.ser: self.ser.close() (28-29)
\*   "opening"  before self.ser = serial.Serial(...) (32)
\*   "testing"  in the first sleep, before the test write (33-36)
\*   "setting"  in the second sleep, before connected = True (37-39)
\*   "except"   an exception was raised, before connected = False (45)
\* ------------------------------------------------------------------------

PulseThreads == 1..MaxPulseThreads

ConnectStages == {"idle", "closing", "opening", "testing", "setting",
                  "except"}

Idle == [pc |-> "idle", op |-> "none", command |-> CMD_CLEAR,
         was_connected |-> FALSE, wire |-> <<>>]

NoSend == [bit |-> 0, op |-> "none", command |-> CMD_CLEAR,
           was_connected |-> FALSE, ret |-> None, wire |-> <<>>]

\* The owner's call returns ret: what it called, the value of connected
\* its first test read, what it wrote.
Returned(c, ret) ==
    /\ commander' = Idle
    /\ sent' = [bit |-> 1 - sent.bit, op |-> c.op, command |-> c.command,
                was_connected |-> c.was_connected, ret |-> ret,
                wire |-> c.wire]

\* transmitter.py:66, by who: the port takes the command, or the write
\* raises; it raises on a closed port.
Written(accepted) == accepted /\ tx.is_open

Wire(who, command) ==
    /\ sink' = <<command>>
    /\ last_writer' = who

\* transmitter.py:24: connect() is entered in its thread.
ConnectBegin ==
    /\ connecting = "idle"
    /\ connecting' = "closing"
    /\ UNCHANGED <<tx, sink>>

\* transmitter.py:28-29
ConnectCloses ==
    /\ connecting = "closing"
    /\ connecting' = "opening"
    /\ tx' = [tx EXCEPT !.is_open = IF tx.ser THEN FALSE ELSE @]
    /\ UNCHANGED sink

\* transmitter.py:32: the port opens and self.ser is the new object, or
\* serial.Serial raises and self.ser keeps the object it held.
ConnectOpens(opened) ==
    /\ connecting = "opening"
    /\ IF opened
       THEN /\ tx' = [tx EXCEPT !.ser = TRUE, !.is_open = TRUE]
            /\ connecting' = "testing"
       ELSE /\ connecting' = "except"
            /\ UNCHANGED tx
    /\ UNCHANGED sink

\* transmitter.py:33-36: the test write of the empty line, which is not a
\* command; it raises on a port closed in the meantime.
ConnectTests(accepted) ==
    /\ connecting = "testing"
    /\ connecting' = IF Written(accepted) THEN "setting" ELSE "except"
    /\ UNCHANGED <<tx, sink>>

\* transmitter.py:37-41
ConnectSets ==
    /\ connecting = "setting"
    /\ connecting' = "idle"
    /\ tx' = [tx EXCEPT !.connected = TRUE]
    /\ UNCHANGED sink

\* transmitter.py:43-46
ConnectExcept ==
    /\ connecting = "except"
    /\ connecting' = "idle"
    /\ tx' = [tx EXCEPT !.connected = FALSE]
    /\ UNCHANGED sink

\* The statements of the connect thread.
ConnectThread ==
    \/ ConnectCloses
    \/ \E opened \in BOOLEAN : ConnectOpens(opened)
    \/ \E accepted \in BOOLEAN : ConnectTests(accepted)
    \/ ConnectSets
    \/ ConnectExcept

OwnerOps == SendOps \cup {"disconnect", "stop_obstruction_pulse"}

\* transmitter.py:75, 81, 87: a send_*_alert tests connected and returns
\* None at once when it is false; 120, 50, 111: send, disconnect and
\* stop_obstruction_pulse are entered.
CallBegin(op, command) ==
    /\ commander = Idle
    /\ op \in OwnerOps
    /\ LET c == [pc |-> IF op = "send" THEN "send" ELSE "stop_test",
                 op |-> op, command |-> SendCommand(op, command),
                 was_connected |-> tx.connected, wire |-> <<>>]
       IN IF op \in AlertOps /\ ~tx.connected
          THEN Returned(c, None)
          ELSE /\ commander' = c
               /\ UNCHANGED sent
    /\ UNCHANGED <<tx, sink, last_writer, pulse_threads>>

\* stop_obstruction_pulse has returned (116): the value is discarded.
AfterStop(c) ==
    IF c.op = "stop_obstruction_pulse"
    THEN Returned(c, None)
    ELSE /\ commander' = [c EXCEPT !.pc = IF c.op = "disconnect"
                                           THEN "ser_test" ELSE "send"]
         /\ UNCHANGED sent

\* transmitter.py:113
StopTest ==
    /\ commander.pc = "stop_test"
    /\ IF tx.obstruction_pulsing
       THEN /\ commander' = [commander EXCEPT !.pc = "stop_unset"]
            /\ UNCHANGED sent
       ELSE AfterStop(commander)
    /\ UNCHANGED <<tx, sink, last_writer, pulse_threads>>

\* transmitter.py:114
StopUnset ==
    /\ commander.pc = "stop_unset"
    /\ tx' = [tx EXCEPT !.obstruction_pulsing = FALSE]
    /\ commander' = [commander EXCEPT !.pc = "stop_set"]
    /\ UNCHANGED <<sink, last_writer, pulse_threads, sent>>

\* transmitter.py:115
StopSet ==
    /\ commander.pc = "stop_set"
    /\ tx' = [tx EXCEPT !.stop_pulse = TRUE]
    /\ commander' = [commander EXCEPT !.pc = "stop_send"]
    /\ UNCHANGED <<sink, last_writer, pulse_threads, sent>>

\* transmitter.py:116 and 62
StopSend ==
    /\ commander.pc = "stop_send"
    /\ IF tx.connected /\ tx.ser
       THEN /\ commander' = [commander EXCEPT !.pc = "stop_write"]
            /\ UNCHANGED sent
       ELSE AfterStop(commander)
    /\ UNCHANGED <<tx, sink, last_writer, pulse_threads>>

\* transmitter.py:66-68, for the '0' of stop_obstruction_pulse
StopWrite(accepted) ==
    /\ commander.pc = "stop_write"
    /\ IF Written(accepted)
       THEN /\ Wire("caller", CMD_CLEAR)
            /\ AfterStop([commander EXCEPT !.wire = Append(@, CMD_CLEAR)])
       ELSE /\ commander' = [commander EXCEPT !.pc = "stop_except"]
            /\ UNCHANGED <<sink, last_writer, sent>>
    /\ UNCHANGED <<tx, pulse_threads>>

\* transmitter.py:69-71
StopExcept ==
    /\ commander.pc = "stop_except"
    /\ tx' = [tx EXCEPT !.connected = FALSE]
    /\ AfterStop(commander)
    /\ UNCHANGED <<sink, last_writer, pulse_threads>>

\* transmitter.py:52
DisconnectTest ==
    /\ commander.pc = "ser_test"
    /\ commander' = [commander EXCEPT !.pc = IF tx.ser THEN "send"
                                             ELSE "finally"]
    /\ UNCHANGED <<tx, sink, last_writer, pulse_threads, sent>>

\* The _send_command of the call has returned ret: a send returns it
\* (77, 83, 89, 120), disconnect goes on to close the port (54).
AfterCommand(c, ret) ==
    IF c.op = "disconnect"
    THEN /\ commander' = [c EXCEPT !.pc = "close"]
         /\ UNCHANGED sent
    ELSE Returned(c, ret)

\* transmitter.py:62, in the _send_command of a send or of disconnect
CallSend ==
    /\ commander.pc = "send"
    /\ LET c == IF commander.op = "send"
                THEN [commander EXCEPT !.was_connected = tx.connected]
                ELSE commander
       IN IF tx.connected /\ tx.ser
          THEN /\ commander' = [c EXCEPT !.pc = "write"]
               /\ UNCHANGED sent
          ELSE AfterCommand(c, RetFalse)
    /\ UNCHANGED <<tx, sink, last_writer, pulse_threads>>

\* transmitter.py:66-68
CallWrite(accepted) ==
    /\ commander.pc = "write"
    /\ IF Written(accepted)
       THEN /\ Wire("caller", commander.command)
            /\ AfterCommand([commander EXCEPT
                                !.wire = Append(@, commander.command)],
                            RetTrue)
       ELSE /\ commander' = [commander EXCEPT !.pc = "except"]
            /\ UNCHANGED <<sink, last_writer, sent>>
    /\ UNCHANGED <<tx, pulse_threads>>

\* transmitter.py:69-71
CallExcept ==
    /\ commander.pc = "except"
    /\ tx' = [tx EXCEPT !.connected = FALSE]
    /\ AfterCommand(commander, RetFalse)
    /\ UNCHANGED <<sink, last_writer, pulse_threads>>

\* transmitter.py:54
DisconnectClose ==
    /\ commander.pc = "close"
    /\ tx' = [tx EXCEPT !.is_open = FALSE]
    /\ commander' = [commander EXCEPT !.pc = "finally"]
    /\ UNCHANGED <<sink, last_writer, pulse_threads, sent>>

\* transmitter.py:57-58
DisconnectFinally ==
    /\ commander.pc = "finally"
    /\ tx' = [tx EXCEPT !.connected = FALSE]
    /\ Returned(commander, None)
    /\ UNCHANGED <<sink, last_writer, pulse_threads>>

\* transmitter.py:91-94
PulseStartBegin ==
    /\ commander = Idle
    /\ \E t \in PulseThreads : pulse_threads[t] = "unborn"
    /\ LET c == [pc |-> "start_set", op |-> "start_obstruction_pulse",
                 command |-> CMD_OBSTRUCTION,
                 was_connected |-> tx.connected, wire |-> <<>>]
       IN IF ~tx.connected \/ tx.obstruction_pulsing
          THEN Returned(c, RetFalse)
          ELSE /\ commander' = c
               /\ UNCHANGED sent
    /\ UNCHANGED <<tx, sink, last_writer, pulse_threads>>

\* transmitter.py:96
PulseStartSet ==
    /\ commander.pc = "start_set"
    /\ tx' = [tx EXCEPT !.obstruction_pulsing = TRUE]
    /\ commander' = [commander EXCEPT !.pc = "start_clear"]
    /\ UNCHANGED <<sink, last_writer, pulse_threads, sent>>

\* transmitter.py:97
PulseStartClear ==
    /\ commander.pc = "start_clear"
    /\ tx' = [tx EXCEPT !.stop_pulse = FALSE]
    /\ commander' = [commander EXCEPT !.pc = "start_thread"]
    /\ UNCHANGED <<sink, last_writer, pulse_threads, sent>>

\* transmitter.py:108-109
PulseStartThread ==
    /\ commander.pc = "start_thread"
    /\ LET t == CHOOSE u \in PulseThreads :
                    /\ pulse_threads[u] = "unborn"
                    /\ \A v \in PulseThreads :
                           pulse_threads[v] = "unborn" => u <= v
       IN pulse_threads' = [pulse_threads EXCEPT ![t] = "test"]
    /\ Returned(commander, RetTrue)
    /\ UNCHANGED <<tx, sink, last_writer>>

PulseAt(t, pc) == pulse_threads' = [pulse_threads EXCEPT ![t] = pc]

\* transmitter.py:100
PulseTest(t) ==
    /\ pulse_threads[t] = "test"
    /\ PulseAt(t, IF tx.obstruction_pulsing /\ ~tx.stop_pulse
                  THEN "on" ELSE "done")
    /\ UNCHANGED <<tx, sink, last_writer, commander, sent>>

\* transmitter.py:101 and 62: the test of _send_command('2')
PulseOn(t) ==
    /\ pulse_threads[t] = "on"
    /\ PulseAt(t, IF tx.connected /\ tx.ser THEN "on_write" ELSE "check")
    /\ UNCHANGED <<tx, sink, last_writer, commander, sent>>

\* transmitter.py:102-104
PulseCheck(t) ==
    /\ pulse_threads[t] = "check"
    /\ PulseAt(t, IF tx.stop_pulse THEN "done" ELSE "off")
    /\ UNCHANGED <<tx, sink, last_writer, commander, sent>>

\* transmitter.py:105 and 62: the test of _send_command('0')
PulseOff(t) ==
    /\ pulse_threads[t] = "off"
    /\ PulseAt(t, IF tx.connected /\ tx.ser THEN "off_write" ELSE "test")
    /\ UNCHANGED <<tx, sink, last_writer, commander, sent>>

\* transmitter.py:66-68, in the thread
PulseWrite(t, accepted) ==
    /\ pulse_threads[t] \in {"on_write", "off_write"}
    /\ LET on == pulse_threads[t] = "on_write"
       IN IF Written(accepted)
          THEN /\ Wire("pulse", IF on THEN CMD_OBSTRUCTION ELSE CMD_CLEAR)
               /\ PulseAt(t, IF on THEN "check" ELSE "test")
          ELSE /\ PulseAt(t, IF on THEN "on_except" ELSE "off_except")
               /\ UNCHANGED <<sink, last_writer>>
    /\ UNCHANGED <<tx, commander, sent>>

\* transmitter.py:69-71, in the thread
PulseExcept(t) ==
    /\ pulse_threads[t] \in {"on_except", "off_except"}
    /\ tx' = [tx EXCEPT !.connected = FALSE]
    /\ PulseAt(t, IF pulse_threads[t] = "on_except" THEN "check" ELSE "test")
    /\ UNCHANGED <<sink, last_writer, commander, sent>>

\* ------------------------------------------------------------------------
\* PerimeterMonitor: the single-shot check
\*
\* A frame is seen by the check through two numbers of the background
\* subtraction: changed, the count of mask pixels whose difference to the
\* reference exceeds difference_threshold, and sig, whether some contour
\* of them has an area above min_contour_area.  A percentage is kept as
\* the exact fraction num/den.
\* ------------------------------------------------------------------------

PerimeterFrames == [changed : 0..MaskArea, sig : BOOLEAN]

\* Variant of Percentage: the share of the mask that has not changed.
Percentage_Unchanged(changed, mask_area) ==
    [num |-> (mask_area - changed) * 100, den |-> mask_area]

\* perimeter.py:230  (total_changed_pixels / mask_area) * 100
Percentage(changed, mask_area) == [num |-> changed * 100, den |-> mask_area]

ZeroPercentage == [num |-> 0, den |-> 1]

PctGT(p, k) == p.num > k * p.den

PctGE(p, k) == p.num >= k * p.den

\* Two percentages are the same number.
PctEq(p, q) == p.num * q.den = q.num * p.den

\* p <= q
PctLE(p, q) == p.num * q.den <= q.num * p.den

\* perimeter.py:194-247
_check_obstruction_internal(configured, mask_area, frame) ==
    IF ~configured
    THEN [obstructed |-> FALSE, percentage |-> ZeroPercentage]
    ELSE IF mask_area = 0
    THEN [obstructed |-> FALSE, percentage |-> ZeroPercentage]
    ELSE LET percentage == Percentage(frame.changed, mask_area)
         IN [obstructed |->
                 \/ (frame.sig /\ PctGT(percentage, significant_min_percentage))
                 \/ PctGE(percentage, obstruction_threshold),
             percentage |-> percentage]

\* perimeter.py:623-630
check_obstruction(configured, mask_area, frame) ==
    IF ~configured
    THEN [obstructed |-> FALSE, percentage |-> ZeroPercentage]
    ELSE _check_obstruction_internal(TRUE, mask_area, frame)

\* ------------------------------------------------------------------------
\* RealtimeDetector: the asynchronous detection pipeline
\*
\* A constructed detector has using_yolo = True: when the import of
\* ultralytics fails, __init__ imports demo_detector, which is not part of
\* the repository, and raises.  A camera frame is an identifier in
\* 1..NumFrames, NoFrame is Python's None passed as the frame.  An image
\* held in a result records how it was made and from which frame.
\* ------------------------------------------------------------------------

NoFrame == 0

CameraFrames == 1..NumFrames

\* detect.py:60-65
DefaultImage == [kind |-> "INITIALIZING", of |-> NoFrame]

\* detect.py:67-72
ErrorImage == [kind |-> "Detection Error", of |-> NoFrame]

\* r0.plot()
PlotImage(frame) == [kind |-> "plot", of |-> frame]

\* frame.copy() with a text drawn on it
CopyImage(frame) == [kind |-> "copy", of |-> frame]

\* Python's None in the place of an image
NullImage == [kind |-> "None", of |-> NoFrame]

\* detect.py:60-65
_create_default_result ==
    [annotated |-> DefaultImage, detected_flag |-> FALSE, detections |-> <<>>]

\* Class names of the model, as sequences of characters.
NameSwimming == <<"S", "w", "i", "m">>

NameDrowning == <<"D", "r", "o", "w", "n", "i", "n", "g">>

NameDrownPrefix == <<"d", "r", "o", "w", "n", "_", "1">>

\* str.lower() on the characters in use
LowerChar(c) ==
    CASE c = "S" -> "s"
      [] c = "D" -> "d"
      [] OTHER -> c

Lower(name) == [i \in 1..Len(name) |-> LowerChar(name[i])]

StartsWith(name, prefix) ==
    /\ Len(name) >= Len(prefix)
    /\ SubSeq(name, 1, Len(prefix)) = prefix

\* detect.py:120
IsDrowningName(name) ==
    \/ Lower(name) = <<"d", "r", "o", "w", "n", "i", "n", "g">>
    \/ StartsWith(Lower(name), <<"d", "r", "o", "w", "n">>)

\* What one call of the inference engine does: it raises, or it returns
\* boxes with the given class names; plot() may return None; extracting
\* the boxes may raise (detect.py:105-128), and names are then the boxes
\* handled before the exception.
NameLists == {<<>>, <<NameSwimming>>, <<NameSwimming, NameDrowning>>,
              <<NameDrownPrefix>>}

InferenceOutcomes ==
    {[raises |-> TRUE, plot_none |-> FALSE, box_error |-> FALSE, names |-> <<>>]}
    \cup [raises : {FALSE}, plot_none : {FALSE}, box_error : {FALSE},
          names : NameLists]
    \cup {[raises |-> FALSE, plot_none |-> TRUE, box_error |-> FALSE,
           names |-> <<NameSwimming, NameDrowning>>],
          [raises |-> FALSE, plot_none |-> FALSE, box_error |-> TRUE,
           names |-> <<NameSwimming>>]}

\* detect.py:110-121
DetectedFlag(names) == \E i \in 1..Len(names) : IsDrowningName(names[i])

\* Variant of EnsureAnnotated: the result of plot() is stored as it is.
EnsureAnnotated_Unchecked(annotated, frame) == annotated

\* detect.py:130-134
EnsureAnnotated(annotated, frame) ==
    IF annotated = NullImage THEN CopyImage(frame) ELSE annotated

\* detect.py:141-144: the flag of the result at current_time, with the
\* last positive frame at event_time.
HoldFlag(current_time, event_time) ==
    (current_time - event_time) <= Seconds(event_hold_seconds)

\* Queue.empty()
QueueEmpty(q) == q = <<>>

\* Queue.put_nowait(): on a full queue it raises Full, which detect_frame
\* swallows (detect.py:183-186).
put_nowait(q, item) ==
    IF Len(q) >= detection_queue_maxsize THEN q ELSE Append(q, item)

\* Variant of SlotWhenFull: latest frame wins, the queued frame is replaced.
SlotWhenFull_LatestWins(q, frame) == <<frame>>

\* detect.py:182-188: a frame submitted while the slot is not empty is
\* skipped, the slot is left as it is.
SlotWhenFull(q, frame) == q

\* Variant of TooSoon: the interval is not tested.
TooSoon_Never(current_time) == FALSE

\* detect.py:171  current_time - last_detection_time < 1.0 / target_fps
TooSoon(current_time) ==
    (current_time - last_detection_time) * target_fps < TicksPerSecond

\* The hold window of the last positive inference contains the time.
InHold(current_time) ==
    /\ last_event_time <= current_time
    /\ current_time - last_event_time <= Seconds(event_hold_seconds)

\* The caller of detect_frame between two of its statements: pc is the
\* statement it is at, frame the frame it passed, time the clock it read at
\* detect.py:168, path the branch it returns through.
Submitter(pc, frame, time, path) ==
    [pc |-> pc, frame |-> frame, time |-> time, path |-> path]

NoCall == Submitter("idle", NoFrame, 0, "none")

\* Variant of Return: the three fields are read one by one, the image
\* now and the flag and the detections as the previous call found them.
Return_Torn(frame, path) ==
    /\ call' = [bit |-> 1 - call.bit, frame |-> frame, path |-> path,
                result |-> [annotated |-> last_valid_result.annotated,
                            detected_flag |-> call.result.detected_flag,
                            detections |-> call.result.detections],
                in_hold |-> InHold(now)]
    /\ detection_error_count' = 0

\* detect_frame returns self.last_valid_result, one read of the field.  No
\* statement of detect_frame raises with using_yolo; the caller,
\* monitor_loop, receives the result inside its try and resets its error
\* count (main.py:1135-1138).  The except branch of monitor_loop
\* (main.py:1147-1162) is entered only when detect_frame raises.
Return(frame, path) ==
    /\ call' = [bit |-> 1 - call.bit, frame |-> frame, path |-> path,
                result |-> last_valid_result, in_hold |-> InHold(now)]
    /\ detection_error_count' = 0

\* detect.py:163-168: the call begins.  On no frame it returns the stored
\* result at once (165-166); on a frame it reads the clock (168).
DetectFrame(frame) ==
    /\ submitter.pc = "idle"
    /\ IF frame = NoFrame
       THEN /\ Return(frame, "no frame")
            /\ UNCHANGED submitter
       ELSE /\ submitter' = Submitter("interval", frame, now, "none")
            /\ UNCHANGED <<call, detection_error_count>>
    /\ UNCHANGED <<processing, detection_queue, last_valid_result,
                   last_event_time, last_detection_time, frame_counter,
                   worker, inference, using_fallback_detector>>

\* detect.py:171-179: the interval test on the clock read at 168 and on
\* last_detection_time as it is now, the count of the frame and the test
\* of the skip factor.
DetectFrameInterval ==
    /\ submitter.pc = "interval"
    /\ IF TooSoon(submitter.time)
       THEN /\ submitter' = [submitter EXCEPT !.pc = "return",
                                              !.path = "too soon"]
            /\ UNCHANGED frame_counter
       ELSE /\ frame_counter' = frame_counter + 1
            /\ submitter' =
                   IF frame_counter' % (frame_skip + 1) # 0
                   THEN [submitter EXCEPT !.pc = "return", !.path = "skipped"]
                   ELSE [submitter EXCEPT !.pc = "test"]
    /\ UNCHANGED <<processing, detection_queue, last_valid_result,
                   last_event_time, last_detection_time, worker, call,
                   inference, detection_error_count, using_fallback_detector>>

\* detect.py:182: the test of the slot.
DetectFrameTest ==
    /\ submitter.pc = "test"
    /\ IF QueueEmpty(detection_queue)
       THEN /\ submitter' = [submitter EXCEPT !.pc = "put"]
            /\ UNCHANGED detection_queue
       ELSE /\ detection_queue' = SlotWhenFull(detection_queue, submitter.frame)
            /\ submitter' = [submitter EXCEPT !.pc = "return",
                                              !.path = "dropped"]
    /\ UNCHANGED <<processing, last_valid_result, last_event_time,
                   last_detection_time, frame_counter, worker, call,
                   inference, detection_error_count, using_fallback_detector>>

\* detect.py:183-186: put_nowait.
DetectFramePut ==
    /\ submitter.pc = "put"
    /\ detection_queue' = put_nowait(detection_queue, submitter.frame)
    /\ submitter' = [submitter EXCEPT !.pc = "return", !.path = "queued"]
    /\ UNCHANGED <<processing, last_valid_result, last_event_time,
                   last_detection_time, frame_counter, worker, call,
                   inference, detection_error_count, using_fallback_detector>>

\* detect.py:172, 179, 188: return self.last_valid_result.
DetectFrameReturn ==
    /\ submitter.pc = "return"
    /\ Return(submitter.frame, submitter.path)
    /\ submitter' = NoCall
    /\ UNCHANGED <<processing, detection_queue, last_valid_result,
                   last_event_time, last_detection_time, frame_counter,
                   worker, inference, using_fallback_detector>>

\* The threads that run _processing_loop: the one the constructor starts
\* (detect.py:52) and those a call of start_processing_thread starts.
Workers == 1..MaxWorkers

\* A worker thread between two of its statements: pc is the statement it
\* is at, frame the frame it took, result and time the locals
\* (annotated, detected_flag, detections) and now of detect.py:137-144.
Worker(pc, frame, result, time) ==
    [pc |-> pc, frame |-> frame, result |-> result, time |-> time]

WorkerAt(pc) == Worker(pc, NoFrame, _create_default_result, 0)

\* A thread that runs the loop.
Alive(w) == worker[w].pc \notin {"unborn", "done"}

\* detect.py:86: the test of `while self.processing` passes.
WorkerPoll(w) ==
    /\ worker[w].pc = "poll"
    /\ processing
    /\ worker' = [worker EXCEPT ![w] = WorkerAt("slot")]
    /\ UNCHANGED <<now, processing, detection_queue, last_valid_result,
                   last_event_time, last_detection_time, frame_counter,
                   submitter, call, inference, detection_error_count,
                   using_fallback_detector>>

\* detect.py:88: the test of the slot.  On an empty slot the loop goes back
\* to its test.
WorkerSlot(w) ==
    /\ worker[w].pc = "slot"
    /\ worker' = [worker EXCEPT ![w] =
                      IF QueueEmpty(detection_queue) THEN WorkerAt("poll")
                      ELSE WorkerAt("get")]
    /\ UNCHANGED <<now, processing, detection_queue, last_valid_result,
                   last_event_time, last_detection_time, frame_counter,
                   submitter, call, inference, detection_error_count,
                   using_fallback_detector>>

\* Variant of WorkerTake: the worker reads the frame and leaves it in the
\* slot.
WorkerTake_Peek(w) ==
    /\ worker[w].pc = "get"
    /\ ~QueueEmpty(detection_queue)
    /\ worker' = [worker EXCEPT ![w] = Worker("infer", Head(detection_queue),
                                              _create_default_result, 0)]
    /\ UNCHANGED <<now, processing, detection_queue, last_valid_result,
                   last_event_time, last_detection_time, frame_counter,
                   submitter, call, inference, detection_error_count,
                   using_fallback_detector>>

\* detect.py:89-92: get_nowait takes the frame of the slot.  The worker
\* tested processing at line 86 and the slot at line 88, in earlier steps.
WorkerTake(w) ==
    /\ worker[w].pc = "get"
    /\ ~QueueEmpty(detection_queue)
    /\ worker' = [worker EXCEPT ![w] = Worker("infer", Head(detection_queue),
                                              _create_default_result, 0)]
    /\ detection_queue' = Tail(detection_queue)
    /\ UNCHANGED <<now, processing, last_valid_result, last_event_time,
                   last_detection_time, frame_counter, submitter, call,
                   inference, detection_error_count, using_fallback_detector>>

\* detect.py:89 and 159-161: another thread took the frame since the test
\* of line 88; get_nowait raises Empty, the loop sleeps and goes back to
\* its test.
WorkerMiss(w) ==
    /\ worker[w].pc = "get"
    /\ QueueEmpty(detection_queue)
    /\ worker' = [worker EXCEPT ![w] = WorkerAt("poll")]
    /\ UNCHANGED <<now, processing, detection_queue, last_valid_result,
                   last_event_time, last_detection_time, frame_counter,
                   submitter, call, inference, detection_error_count,
                   using_fallback_detector>>

\* Variant of ErrorResult: the stored result is left as it was.
ErrorResult_KeepsLast == last_valid_result

\* detect.py:156-157
ErrorResult ==
    [annotated |-> ErrorImage, detected_flag |-> FALSE, detections |-> <<>>]

\* The inference just made: the number of inferences in a row that raised,
\* this one included, and whether the one before it raised.
Inferred(raised) ==
    [failures |-> IF raised THEN inference.failures + 1 ELSE 0,
     after_failure |-> inference.failures > 0]

\* detect.py:94-137 and 154-157: the inference on the frame.  When it
\* raises, the error result is stored (157).  When it returns, the worker
\* holds the image, the flag of the frame and the detections in its locals
\* and reads the clock (137).
WorkerInfer(w, outcome) ==
    /\ worker[w].pc = "infer"
    /\ IF outcome.raises
       THEN /\ last_valid_result' = ErrorResult
            /\ inference' = Inferred(TRUE)
            /\ worker' = [worker EXCEPT ![w] = WorkerAt("poll")]
       ELSE LET frame == worker[w].frame
                plotted == IF outcome.plot_none THEN NullImage
                           ELSE PlotImage(frame)
                detections == outcome.names
                annotated == IF outcome.box_error THEN CopyImage(frame)
                             ELSE plotted
            IN /\ worker' = [worker EXCEPT ![w] =
                      Worker(IF DetectedFlag(detections) THEN "event"
                             ELSE "hold",
                             frame,
                             [annotated |-> EnsureAnnotated(annotated, frame),
                              detected_flag |-> DetectedFlag(detections),
                              detections |-> detections],
                             now)]
               /\ UNCHANGED <<last_valid_result, inference>>
    /\ UNCHANGED <<now, processing, detection_queue, last_event_time,
                   last_detection_time, frame_counter, submitter, call,
                   detection_error_count, using_fallback_detector>>

\* detect.py:138-139: self.last_event_time = now, for a positive frame.
WorkerEvent(w) ==
    /\ worker[w].pc = "event"
    /\ last_event_time' = worker[w].time
    /\ worker' = [worker EXCEPT ![w].pc = "hold"]
    /\ UNCHANGED <<now, processing, detection_queue, last_valid_result,
                   last_detection_time, frame_counter, submitter, call,
                   inference, detection_error_count, using_fallback_detector>>

\* detect.py:141-144: the flag of the result, from last_event_time as it
\* is now.
WorkerHold(w) ==
    /\ worker[w].pc = "hold"
    /\ worker' = [worker EXCEPT
                      ![w].pc = "store",
                      ![w].result.detected_flag =
                          HoldFlag(worker[w].time, last_event_time)]
    /\ UNCHANGED <<now, processing, detection_queue, last_valid_result,
                   last_event_time, last_detection_time, frame_counter,
                   submitter, call, inference, detection_error_count,
                   using_fallback_detector>>

\* detect.py:147: self.last_valid_result = (annotated, detected_flag,
\* detections), one assignment of a tuple.
WorkerStore(w) ==
    /\ worker[w].pc = "store"
    /\ last_valid_result' = worker[w].result
    /\ inference' = Inferred(FALSE)
    /\ worker' = [worker EXCEPT ![w].pc = "stamp"]
    /\ UNCHANGED <<now, processing, detection_queue, last_event_time,
                   last_detection_time, frame_counter, submitter, call,
                   detection_error_count, using_fallback_detector>>

\* detect.py:148: self.last_detection_time = now, the time read at 137.
WorkerStamp(w) ==
    /\ worker[w].pc = "stamp"
    /\ last_detection_time' = worker[w].time
    /\ worker' = [worker EXCEPT ![w] = WorkerAt("poll")]
    /\ UNCHANGED <<now, processing, detection_queue, last_valid_result,
                   last_event_time, frame_counter, submitter, call, inference,
                   detection_error_count, using_fallback_detector>>

\* detect.py:86: the loop ends when processing is false.
WorkerExit(w) ==
    /\ worker[w].pc = "poll"
    /\ ~processing
    /\ worker' = [worker EXCEPT ![w] = WorkerAt("done")]
    /\ UNCHANGED <<now, processing, detection_queue, last_valid_result,
                   last_event_time, last_detection_time, frame_counter,
                   submitter, call, inference, detection_error_count,
                   using_fallback_detector>>

\* detect.py:74-82: start_processing_thread sets processing and starts a
\* thread on _processing_loop, whether or not one is running.  The caller
\* is the thread that calls detect_frame and cleanup.
StartProcessingThread ==
    /\ ~using_fallback_detector
    /\ submitter.pc = "idle"
    /\ \E w \in Workers :
           /\ ~Alive(w)
           /\ \A v \in Workers : ~Alive(v) => w <= v
           /\ worker' = [worker EXCEPT ![w] = WorkerAt("poll")]
    /\ processing' = TRUE
    /\ UNCHANGED <<now, detection_queue, last_valid_result, last_event_time,
                   last_detection_time, frame_counter, submitter, call,
                   inference, detection_error_count, using_fallback_detector>>

\* detect.py:197-202: cleanup clears processing, whatever it was; the join
\* that follows waits for one second at most and changes no field.  The
\* caller is the thread that calls detect_frame.
Cleanup ==
    /\ submitter.pc = "idle"
    /\ processing' = FALSE
    /\ UNCHANGED <<now, detection_queue, last_valid_result, last_event_time,
                   last_detection_time, frame_counter, worker, submitter, call,
                   inference, detection_error_count, using_fallback_detector>>

\* The statements of the worker threads other than the inference.
WorkerStatement(w) ==
    \/ WorkerPoll(w)
    \/ WorkerSlot(w)
    \/ WorkerTake(w)
    \/ WorkerEvent(w)
    \/ WorkerHold(w)
    \/ WorkerStore(w)
    \/ WorkerStamp(w)

\* The wall clock of the detector, one tick at a time.
AdvanceTimeDet ==
    /\ now < Epoch + MaxTicksDet
    /\ now' = now + 1
    /\ UNCHANGED <<detVars, scanVars, cfgVars, lockVars>>

\* detect.py:13-52: the detector as its constructor leaves it, in a
\* session that initialize_detector_with_fallback gave this detector
\* (main.py:822-824, 1000, 1064).
InitDetector ==
    /\ processing = TRUE
    /\ detection_queue = <<>>
    /\ last_valid_result = _create_default_result
    /\ last_event_time = 0
    /\ last_detection_time = 0
    /\ frame_counter = 0
    /\ worker = [w \in Workers |-> IF w = 1 THEN WorkerAt("poll")
                                  ELSE WorkerAt("unborn")]
    /\ submitter = NoCall
    /\ call = [bit |-> 0, frame |-> NoFrame, path |-> "none",
               result |-> _create_default_result, in_hold |-> FALSE]
    /\ inference = [failures |-> 0, after_failure |-> FALSE]
    /\ detection_error_count = 0
    /\ using_fallback_detector = FALSE

\* main.py:986-1023: the value of using_fallback_detector after
\* initialize_detector_with_fallback.  constructed is false when
\* RealtimeDetector(...) raises: the model file does not load, or
\* ultralytics is missing and the import of demo_detector fails
\* (detect.py:34-58).  The test call of detect_frame does not raise.
initialize_detector_with_fallback(constructed) == ~constructed

\* Variant of BasicDetectFrame: the fallback reports a hazard.
BasicDetectFrame_Hazard(frame) ==
    [annotated |-> CopyImage(frame), detected_flag |-> TRUE,
     detections |-> <<>>]

\* main.py:1012-1019  BasicDetector.detect_frame
BasicDetectFrame(frame) ==
    [annotated |-> CopyImage(frame), detected_flag |-> FALSE,
     detections |-> <<>>]

\* ------------------------------------------------------------------------
\* PerimeterMonitor: images, mask, reference and detection parameters
\*
\* An image is seen through the gray levels of NumPixels pixels, each at one
\* of three levels: two levels are apart by more than the default
\* difference_threshold or by less, so the parameter decides which pixels
\* count as changed.  A pixel of the model stands for a block of PixelSize
\* real pixels that change together, which puts percentages on both sides
\* of the thresholds.  The mask is the set of pixels cv2.fillPoly covers
\* for the polygon.  None in self.mask and self.reference_frame is the
\* record with present = FALSE.  A frame carries, besides its image, the
\* area of the largest contour cv2.findContours finds among its changed
\* pixels.  Intervals are in tenths of a second.
\* ------------------------------------------------------------------------

Pixels == 1..NumPixels

\* Real pixels in the block of a pixel.
PixelSize(p) == CASE p = 1 -> 1 [] p = 2 -> 4 [] OTHER -> 15

\* cv2.countNonZero: the real pixels of a set of pixels.
RECURSIVE CountNonZero(_)
CountNonZero(pixels) ==
    IF pixels = {} THEN 0
    ELSE LET p == CHOOSE q \in pixels : TRUE
         IN PixelSize(p) + CountNonZero(pixels \ {p})

\* Gray levels of a pixel: dark, dim and bright.
Levels == {0, 40, 100}

GrayImages == [Pixels -> Levels]

DarkImage == [p \in Pixels |-> 0]

DimImage == [p \in Pixels |-> 40]

BrightImage == [p \in Pixels |-> 100]

\* frame.shape[:2], the resolution of a frame: the nominal resolution of the
\* stream and another one.
NominalShape == "480x640"

Shapes == {NominalShape, "240x320"}

\* The shape of None.
NoShape == "none"

\* The width of one reference and the height of another (perimeter.py:208).
MixedShape == "mixed"

\* self.mask = None
NoMask == [present |-> FALSE, pixels |-> {}, shape |-> NoShape]

\* self.reference_frame = None
NoReference == [present |-> FALSE, image |-> DarkImage, shape |-> NoShape]

\* np.zeros(frame.shape[:2]) filled by cv2.fillPoly (perimeter.py:480-482).
Mask(covered, shape) == [present |-> TRUE, pixels |-> covered, shape |-> shape]

\* cv2.cvtColor(frame, cv2.COLOR_BGR2GRAY) keeps the resolution of the frame.
Gray(image, shape) == [present |-> TRUE, image |-> image, shape |-> shape]

\* Areas of the largest contour of a frame: none, one between the two
\* values min_contour_area takes, one above both.
ContourAreas == {0, 1000, 2000}

\* perimeter.py:42-43, 34: the parameters as the constructor sets them.
DefaultParameters ==
    [difference_threshold |-> difference_threshold,
     min_contour_area |-> min_contour_area,
     obstruction_threshold |-> obstruction_threshold]

\* perimeter.py:328: the defaults of set_detection_parameters.
SetterDefaults ==
    [difference_threshold |-> 25, min_contour_area |-> 500,
     obstruction_threshold |-> 50]

\* Values given to set_threshold: below 0, below significant_min_percentage,
\* two inside, above 100.
ThresholdInputs == {-1, 4, 50, 80, 101}

\* Values given as check_interval: none, the default, one above the timeout
\* of the join.
CheckIntervals == {0, default_check_interval, 30}

Abs(x) == IF x < 0 THEN -x ELSE x

\* perimeter.py:211  cv2.absdiff(self.reference_frame, current_gray)
AbsDiff(reference, image) == [p \in Pixels |-> Abs(reference[p] - image[p])]

\* perimeter.py:214  cv2.threshold(diff, self.difference_threshold, 255, ...)
Threshold(diff, threshold) == {p \in Pixels : diff[p] > threshold}

\* perimeter.py:234-237: a significant contour is one of the changed pixels
\* inside the mask.
Significant(contour, pixels, area) == pixels # {} /\ contour > area

\* perimeter.py:240
is_obstructed(significant, percentage, threshold) ==
    \/ significant /\ PctGT(percentage, significant_min_percentage)
    \/ PctGE(percentage, threshold)

NoResult == [obstructed |-> FALSE, percentage |-> ZeroPercentage]

\* perimeter.py:194-247 run by the owner on the stored reference, mask and
\* parameters, which no other thread writes.  The frame is resized to the
\* resolution of the reference (206-208); image is the frame at that
\* resolution.  cv2.bitwise_and raises when the mask has another resolution
\* than the thresholded difference, and the except clause returns
\* (False, 0.0) (244-247).
CheckFrame(image, contour) ==
    IF ~reference_frame.present \/ ~mask.present THEN NoResult
    ELSE IF mask.shape # reference_frame.shape THEN NoResult
    ELSE IF CountNonZero(mask.pixels) = 0 THEN NoResult
    ELSE LET changed == Threshold(AbsDiff(reference_frame.image, image),
                                  detection_parameters.difference_threshold)
                            \cap mask.pixels
             percentage == Percentage(CountNonZero(changed),
                                      CountNonZero(mask.pixels))
         IN [obstructed |->
                 is_obstructed(
                     Significant(contour, changed,
                                 detection_parameters.min_contour_area),
                     percentage, detection_parameters.obstruction_threshold),
             percentage |-> percentage]

\* ------------------------------------------------------------------------
\* PerimeterMonitor: the owner's calls
\*
\* The owner of the monitor is one thread; caller is its position inside a
\* public method, "idle" between calls.  A method is a sequence of steps,
\* one for each statement that reads or writes a field another thread
\* reads or writes; a with self.lock block is a step that waits for the lock
\* and takes it and the steps of its body, the last of which releases it.
\* api is the observation of the owner's calls: when a call of several
\* steps starts, its operation and arguments with ret = Pending, and when a
\* call returns, what it returned, with bit flipped.  earlier is an earlier
\* check_obstruction whose configuration is still the stored one.
\* ------------------------------------------------------------------------

Threads == 1..MaxThreads

\* self.lock is not held.
Free == [by |-> "none", id |-> 0]

\* The owner of the monitor, as a holder of the lock.
Owner == [by |-> "owner", id |-> 0]

\* A scanning thread, as a holder of the lock.
Thread(t) == [by |-> "thread", id |-> t]

\* The operation has not returned yet.
Pending == "pending"

\* What a call was given: vertices is the number of vertices a configuring
\* operation decided on, image and shape the frame, contour the area of
\* the largest contour of the frame.
Args(vertices, image, contour, shape) ==
    [vertices |-> vertices, image |-> image, contour |-> contour,
     shape |-> shape]

NoArgs == Args(0, DarkImage, 0, NoShape)

NoEarlier == [valid |-> FALSE, args |-> NoArgs, result |-> NoResult]

Resting == [pc |-> "idle", op |-> "none", todo |-> <<>>]

\* The owner is inside op, at pc, with the values it has still to write.
At(pc, op, todo) == caller' = [pc |-> pc, op |-> op, todo |-> todo]

Goto(pc) == caller' = [caller EXCEPT !.pc = pc]

\* A call of several steps starts.
Calling(op, args) ==
    api' = [bit |-> api.bit, op |-> op, args |-> args, ret |-> Pending,
            result |-> NoResult]

\* A call returns.
Called(op, args, ret, result) ==
    api' = [bit |-> 1 - api.bit, op |-> op, args |-> args, ret |-> ret,
            result |-> result]

\* The call in progress returns.
Returns(ret) == Called(api.op, api.args, ret, NoResult) /\ caller' = Resting

\* Variant of Release: the block is left with the lock still held.
Release_Never(who) == lock = who /\ lock' = lock

\* The end of a with self.lock block.
Release(who) == lock = who /\ lock' = Free

\* The entry of a with self.lock block: the thread waits until the lock
\* is free.  threading.Lock is not reentrant.
Acquire(who) == lock = Free /\ lock' = who

engineFlags == <<drawing_complete, monitoring_active, monitoring_thread,
                 stop_flag, obstruction_callback, check_interval>>

engineState == <<obstruction_detected, current_obstruction_pct>>

engineConfig == <<perimeter_points, mask, reference_frame,
                  detection_parameters>>

\* What the engine leaves alone: the clock, the session, the detector and
\* the transmitter.
outside == <<now, arbVars, detVars, txVars>>

\* What a step of the owner leaves alone besides fields of the monitor.
OwnerFrame == UNCHANGED <<loops, notified, yielded, outside>>

\* The operations that start with self.reset() (perimeter.py:67, 456).
ConfigureOps == {"set_perimeter_points", "set_rectangular_perimeter",
                 "set_polygonal_perimeter", "draw_perimeter_interactive"}

\* perimeter.py:501-506: the four corners of the rectangle.
RectangleCorners == 4

\* Vertices an operation can be given: any list for set_perimeter_points
\* and set_polygonal_perimeter, always 4 for the rectangle; the interactive
\* drawing and reset are given none.
ConfigureVertices(op) ==
    CASE op = "set_rectangular_perimeter" -> {RectangleCorners}
      [] op \in {"set_perimeter_points", "set_polygonal_perimeter"}
             -> 0..MaxPoints
      [] OTHER -> {0}

\* A thread that is inside a call of the frame source or of the callback,
\* or in a sleep longer than the timeout of the join, can stay there for
\* any part of the timeout, and longer.
Held(t) ==
    \/ loops[t].pc \in {"fetch", "in_callback"}
    \/ loops[t].pc = "sleep" /\ loops[t].nap > join_timeout

\* perimeter.py:617: thread t is alive when the timeout of the join is
\* over.  The two seconds count from the entry of the join: the thread is
\* held now, or it was held while the join waited ("join_late") and has
\* gone on since.
Blocked(t) ==
    /\ loops[t].pc # "done"
    /\ \/ Held(t)
       \/ caller.pc = "join_late" /\ monitoring_thread = t

\* Thread t leaves a place where it was held.  A join that waits for it
\* (perimeter.py:617) has spent there any part of its timeout.
Leaves(t) ==
    caller' = IF Held(t) /\ caller.pc = "join" /\ monitoring_thread = t
              THEN [caller EXCEPT !.pc = "join_late"]
              ELSE caller

\* perimeter.py:606-613, called by the owner or through reset() (671) by
\* reset and the configure operations (67, 456); 669-673 when no scanning
\* is active.  The frame of a configure operation is given with the call.
StopBegin(op, n, image, shape) ==
    /\ caller = Resting
    /\ op \in {"stop_continuous_monitoring", "reset"} \cup ConfigureOps
    /\ n \in ConfigureVertices(op)
    /\ IF monitoring_active
       THEN /\ monitoring_active' = FALSE
            /\ At("stop_flag", op, <<>>)
            /\ Calling(op, Args(n, image, 0, shape))
       ELSE /\ UNCHANGED monitoring_active
            /\ IF op = "stop_continuous_monitoring"
               THEN /\ Called(op, NoArgs, None, NoResult)
                    /\ caller' = Resting
               ELSE /\ At("reset_lock", op, <<>>)
                    /\ Calling(op, Args(n, image, 0, shape))
    /\ earlier' = earlier
    /\ OwnerFrame
    /\ UNCHANGED <<drawing_complete, monitoring_thread, stop_flag,
                   obstruction_callback, check_interval, engineState,
                   engineConfig, lock>>

\* perimeter.py:614  self.stop_flag.set()
StopFlag ==
    /\ caller.pc = "stop_flag"
    /\ stop_flag' = TRUE
    /\ Goto("join")
    /\ OwnerFrame
    /\ UNCHANGED <<drawing_complete, monitoring_active, monitoring_thread,
                   obstruction_callback, check_interval, engineState,
                   engineConfig, lock, api, earlier>>

\* perimeter.py:616-617: join(timeout=2.0) returns when the thread has
\* ended, or after 2 seconds with the thread alive, wherever it is then.
StopJoin ==
    /\ caller.pc \in {"join", "join_late"}
    /\ \/ loops[monitoring_thread].pc = "done"
       \/ Blocked(monitoring_thread)
    /\ Goto("stop_lock")
    /\ OwnerFrame
    /\ UNCHANGED <<engineFlags, engineState, engineConfig, lock, api,
                   earlier>>

\* perimeter.py:321, 358, 619, 656, 673
OwnerAcquire ==
    /\ caller.pc \in {"read_lock", "stop_lock", "reset_lock", "update_lock"}
    /\ Acquire(Owner)
    /\ Goto(CASE caller.pc = "read_lock" -> "read_body"
              [] caller.pc = "stop_lock" -> "stop_body"
              [] caller.pc = "reset_lock" -> "reset_reference"
              [] OTHER -> "update_body")
    /\ OwnerFrame
    /\ UNCHANGED <<engineFlags, engineState, engineConfig, api,
                   earlier>>

\* perimeter.py:620-621, and the return of stop_continuous_monitoring.
StopBody ==
    /\ caller.pc = "stop_body"
    /\ obstruction_detected' = FALSE
    /\ current_obstruction_pct' = ZeroPercentage
    /\ Release(Owner)
    /\ IF caller.op = "stop_continuous_monitoring"
       THEN Returns(None)
       ELSE Goto("reset_lock") /\ api' = api
    /\ earlier' = earlier
    /\ OwnerFrame
    /\ UNCHANGED <<engineFlags, engineConfig>>

\* perimeter.py:674, inside the lock
ResetReference ==
    /\ caller.pc = "reset_reference"
    /\ reference_frame' = NoReference
    /\ Goto("reset_mask")
    /\ earlier' = NoEarlier
    /\ OwnerFrame
    /\ UNCHANGED <<engineFlags, engineState, perimeter_points, mask,
                   detection_parameters, lock, api>>

\* perimeter.py:675-676, inside the lock; only the owner reads
\* perimeter_points.
ResetMask ==
    /\ caller.pc = "reset_mask"
    /\ perimeter_points' = <<>>
    /\ mask' = NoMask
    /\ Goto("reset_state")
    /\ OwnerFrame
    /\ UNCHANGED <<engineFlags, engineState, reference_frame,
                   detection_parameters, lock, api, earlier>>

\* perimeter.py:677-679 and the end of the block; only the owner reads
\* drawing_complete.  reset returns; set_perimeter_points goes on with
\* its test (458), the interactive drawing with its window (93-102).
ResetState ==
    /\ caller.pc = "reset_state"
    /\ drawing_complete' = FALSE
    /\ obstruction_detected' = FALSE
    /\ current_obstruction_pct' = ZeroPercentage
    /\ Release(Owner)
    /\ IF caller.op = "reset"
       THEN Returns(None)
       ELSE /\ api' = api
            /\ Goto(IF caller.op = "draw_perimeter_interactive"
                    THEN "drawing" ELSE "points")
    /\ OwnerFrame
    /\ UNCHANGED <<monitoring_active, monitoring_thread, stop_flag,
                   obstruction_callback, check_interval, engineConfig,
                   earlier>>

\* perimeter.py:458-468, and 508-510 or 516-518 with 474: the list is
\* tested and stored; set_perimeter_points returns, the other two go on
\* with finalize_perimeter, whose test the stored list passes.
SetPoints ==
    /\ caller.pc = "points"
    /\ IF api.args.vertices < min_perimeter_points
       THEN /\ Returns(RetFalse)
            /\ UNCHANGED perimeter_points
       ELSE /\ perimeter_points' = [i \in 1..api.args.vertices |-> i]
            /\ IF caller.op = "set_perimeter_points"
               THEN Returns(RetTrue)
               ELSE Goto("finalize_mask") /\ api' = api
    /\ OwnerFrame
    /\ UNCHANGED <<engineFlags, engineState, mask, reference_frame,
                   detection_parameters, lock, earlier>>

\* perimeter.py:73-77, during cv2.waitKey (102): a left click appends a
\* point.
DrawClick ==
    /\ caller.pc = "drawing"
    /\ Len(perimeter_points) < MaxPoints
    /\ perimeter_points' = Append(perimeter_points, Len(perimeter_points) + 1)
    /\ api' = [api EXCEPT !.args.vertices = Len(perimeter_points) + 1]
    /\ OwnerFrame
    /\ UNCHANGED <<engineFlags, engineState, mask, reference_frame,
                   detection_parameters, lock, caller, earlier>>

\* perimeter.py:104-108, 121-122: ESC ends the drawing.
DrawEscape ==
    /\ caller.pc = "drawing"
    /\ Returns(RetFalse)
    /\ OwnerFrame
    /\ UNCHANGED <<engineFlags, engineState, engineConfig, lock,
                   earlier>>

\* perimeter.py:110-112: ENTER with 3 points or more calls
\* _finalize_perimeter; with fewer the drawing goes on (117-119).
DrawEnter ==
    /\ caller.pc = "drawing"
    /\ Len(perimeter_points) >= min_perimeter_points
    /\ Goto("finalize_mask")
    /\ OwnerFrame
    /\ UNCHANGED <<engineFlags, engineState, engineConfig, lock, api,
                   earlier>>

\* Variant of FinalizePerimeter: the number of vertices is not tested.
FinalizePerimeter_NoVertexTest(image, shape) ==
    /\ caller = Resting
    /\ At("finalize_mask", "finalize_perimeter", <<>>)
    /\ Calling("finalize_perimeter",
               Args(Len(perimeter_points), image, 0, shape))
    /\ OwnerFrame
    /\ UNCHANGED <<engineFlags, engineState, engineConfig, lock,
                   earlier>>

\* perimeter.py:470-477: finalize_perimeter is called and tests the stored
\* list.
FinalizePerimeter(image, shape) ==
    /\ caller = Resting
    /\ IF Len(perimeter_points) < min_perimeter_points
       THEN /\ Called("finalize_perimeter",
                      Args(Len(perimeter_points), image, 0, shape),
                      RetFalse, NoResult)
            /\ caller' = Resting
       ELSE /\ At("finalize_mask", "finalize_perimeter", <<>>)
            /\ Calling("finalize_perimeter",
                       Args(Len(perimeter_points), image, 0, shape))
    /\ OwnerFrame
    /\ UNCHANGED <<engineFlags, engineState, engineConfig, lock,
                   earlier>>

\* perimeter.py:480 and 177: self.mask = np.zeros(frame.shape[:2])
FinalizeMask ==
    /\ caller.pc = "finalize_mask"
    /\ mask' = Mask({}, api.args.shape)
    /\ Goto("finalize_fill")
    /\ earlier' = NoEarlier
    /\ OwnerFrame
    /\ UNCHANGED <<engineFlags, engineState, perimeter_points,
                   reference_frame, detection_parameters, lock, api>>

\* perimeter.py:481-482 and 178-179: cv2.fillPoly fills self.mask in place;
\* covered is what it fills for the polygon.
FinalizeFill(covered) ==
    /\ caller.pc = "finalize_fill"
    /\ mask' = Mask(covered, mask.shape)
    /\ Goto("finalize_reference")
    /\ OwnerFrame
    /\ UNCHANGED <<engineFlags, engineState, perimeter_points,
                   reference_frame, detection_parameters, lock, api,
                   earlier>>

\* perimeter.py:485 and 182
FinalizeReference ==
    /\ caller.pc = "finalize_reference"
    /\ reference_frame' = Gray(api.args.image, api.args.shape)
    /\ Goto("finalize_done")
    /\ OwnerFrame
    /\ UNCHANGED <<engineFlags, engineState, perimeter_points, mask,
                   detection_parameters, lock, api, earlier>>

\* perimeter.py:486-495 and 183, 113-122: drawing_complete is set and the
\* operation returns True.
FinalizeDone ==
    /\ caller.pc = "finalize_done"
    /\ drawing_complete' = TRUE
    /\ Returns(RetTrue)
    /\ OwnerFrame
    /\ UNCHANGED <<monitoring_active, monitoring_thread, stop_flag,
                   obstruction_callback, check_interval, engineState,
                   engineConfig, lock, earlier>>

\* Variant of UpdateBackground: the reference is replaced whether the
\* engine is configured or not.
UpdateBackground_Unconditional(op, image, shape) ==
    /\ caller = Resting
    /\ op \in {"update_background", "update_reference_frame"}
    /\ At("update_lock", op, <<>>)
    /\ Calling(op, Args(0, image, 0, shape))
    /\ OwnerFrame
    /\ UNCHANGED <<engineFlags, engineState, engineConfig, lock,
                   earlier>>

\* perimeter.py:315-320 and 636-638: update_background, or its alias, is
\* called and tests drawing_complete; 326.
UpdateBackground(op, image, shape) ==
    /\ caller = Resting
    /\ op \in {"update_background", "update_reference_frame"}
    /\ IF drawing_complete
       THEN /\ At("update_lock", op, <<>>)
            /\ Calling(op, Args(0, image, 0, shape))
       ELSE /\ Called(op, Args(0, image, 0, shape), RetFalse, NoResult)
            /\ caller' = Resting
    /\ OwnerFrame
    /\ UNCHANGED <<engineFlags, engineState, engineConfig, lock,
                   earlier>>

\* perimeter.py:322-325, inside the lock, and the return.
UpdateBody ==
    /\ caller.pc = "update_body"
    /\ reference_frame' = Gray(api.args.image, api.args.shape)
    /\ Release(Owner)
    /\ Returns(RetTrue)
    /\ earlier' = NoEarlier
    /\ OwnerFrame
    /\ UNCHANGED <<engineFlags, engineState, perimeter_points, mask,
                   detection_parameters>>

\* The check is remembered as the earlier one, or the one remembered is
\* kept.
Remembers(remember, args, result) ==
    earlier' = IF remember
               THEN [valid |-> TRUE, args |-> args, result |-> result]
               ELSE earlier

\* Variant of CheckObstruction: the check keeps the frame as the new
\* reference.
CheckObstruction_Adapts(image, contour, remember) ==
    /\ caller = Resting
    /\ \E result \in {IF ~drawing_complete THEN NoResult
                      ELSE CheckFrame(image, contour)} :
           /\ Called("check_obstruction",
                     Args(0, image, contour, NominalShape), "tuple", result)
           /\ Remembers(remember, Args(0, image, contour, NominalShape), result)
    /\ reference_frame' = [reference_frame EXCEPT !.image = image]
    /\ OwnerFrame
    /\ UNCHANGED <<engineFlags, engineState, perimeter_points, mask,
                   detection_parameters, lock, caller>>

\* perimeter.py:623-630: the check reads drawing_complete, the reference,
\* the mask and the parameters, which only the owner writes.
CheckObstruction(image, contour, remember) ==
    /\ caller = Resting
    /\ \E result \in {IF ~drawing_complete THEN NoResult
                      ELSE CheckFrame(image, contour)} :
           /\ Called("check_obstruction",
                     Args(0, image, contour, NominalShape), "tuple", result)
           /\ Remembers(remember, Args(0, image, contour, NominalShape), result)
    /\ OwnerFrame
    /\ UNCHANGED <<engineFlags, engineState, engineConfig, lock,
                   caller>>

\* perimeter.py:640-645: a threshold outside 0..100 is ignored.
SetThreshold(threshold) ==
    /\ caller = Resting
    /\ detection_parameters' =
           IF 0 <= threshold /\ threshold <= 100
           THEN [detection_parameters EXCEPT !.obstruction_threshold = threshold]
           ELSE detection_parameters
    /\ Called("set_threshold", NoArgs, None, NoResult)
    /\ earlier' = NoEarlier
    /\ OwnerFrame
    /\ UNCHANGED <<engineFlags, engineState, perimeter_points, mask,
                   reference_frame, lock, caller>>

\* perimeter.py:328-332: set_detection_parameters is called and writes
\* difference_threshold; the other two values are still to be written.
SetDetectionParameters(parameters) ==
    /\ caller = Resting
    /\ detection_parameters' =
           [detection_parameters EXCEPT
               !.difference_threshold = parameters.difference_threshold]
    /\ At("set_area", "set_detection_parameters",
          <<parameters.min_contour_area, parameters.obstruction_threshold>>)
    /\ Calling("set_detection_parameters", NoArgs)
    /\ earlier' = NoEarlier
    /\ OwnerFrame
    /\ UNCHANGED <<engineFlags, engineState, perimeter_points, mask,
                   reference_frame, lock>>

\* perimeter.py:333
SetMinContourArea ==
    /\ caller.pc = "set_area"
    /\ detection_parameters' =
           [detection_parameters EXCEPT !.min_contour_area = Head(caller.todo)]
    /\ At("set_obstruction", caller.op, Tail(caller.todo))
    /\ OwnerFrame
    /\ UNCHANGED <<engineFlags, engineState, perimeter_points, mask,
                   reference_frame, lock, api, earlier>>

\* perimeter.py:334-338: the threshold is written as it is given.
SetObstructionThreshold ==
    /\ caller.pc = "set_obstruction"
    /\ detection_parameters' =
           [detection_parameters EXCEPT
               !.obstruction_threshold = Head(caller.todo)]
    /\ Returns(None)
    /\ OwnerFrame
    /\ UNCHANGED <<engineFlags, engineState, perimeter_points, mask,
                   reference_frame, lock, earlier>>

\* perimeter.py:647-652: an interval that is not positive is ignored.
SetCheckInterval(interval) ==
    /\ caller = Resting
    /\ check_interval' = IF interval > 0 THEN interval ELSE check_interval
    /\ Called("set_check_interval", NoArgs, None, NoResult)
    /\ OwnerFrame
    /\ UNCHANGED <<drawing_complete, monitoring_active, monitoring_thread,
                   stop_flag, obstruction_callback, engineState, engineConfig,
                   lock, caller, earlier>>

\* perimeter.py:632-634: set_obstruction_callback, with a callable or with
\* None; it takes no lock.
SetObstructionCallback(callback) ==
    /\ caller = Resting
    /\ obstruction_callback' = callback
    /\ Called("set_obstruction_callback", NoArgs, None, NoResult)
    /\ OwnerFrame
    /\ UNCHANGED <<drawing_complete, monitoring_active, monitoring_thread,
                   stop_flag, check_interval, engineState, engineConfig, lock,
                   caller, earlier>>

\* perimeter.py:654-656 and 346-358: get_status or draw_overlay is
\* called; draw_overlay returns the frame as it is when the engine is not
\* configured or the perimeter is hidden (self.visible).
ReadBegin(op, visible) ==
    /\ caller = Resting
    /\ op \in {"get_status", "draw_overlay"}
    /\ IF /\ op = "draw_overlay"
          /\ \/ ~drawing_complete
             \/ Len(perimeter_points) < min_perimeter_points
             \/ ~visible
       THEN /\ Called(op, NoArgs, "frame", NoResult)
            /\ caller' = Resting
       ELSE /\ At("read_lock", op, <<>>)
            /\ Calling(op, NoArgs)
    /\ OwnerFrame
    /\ UNCHANGED <<engineFlags, engineState, engineConfig, lock,
                   earlier>>

\* perimeter.py:657-667 and 359-360
ReadBody ==
    /\ caller.pc = "read_body"
    /\ Release(Owner)
    /\ Returns(IF caller.op = "get_status" THEN "dict" ELSE "frame")
    /\ OwnerFrame
    /\ UNCHANGED <<engineFlags, engineState, engineConfig, earlier>>

\* ------------------------------------------------------------------------
\* PerimeterMonitor: continuous scanning
\*
\* Every start_continuous_monitoring that starts a loop creates a thread;
\* threads are numbered 1..MaxThreads in the order of their creation and
\* monitoring_thread is the number of the last one (0: None).  A thread is
\* at one of the places of monitoring_loop:
\*   "while", "while_flag"   the two reads of the loop test (548)
\*   "fetch"           in get_frame_callback() (551)
\*   "test_reference", "test_mask"   the two reads of line 198
\*   "shape"           the comparison of the resolutions (206)
\*   "resize_width", "resize_height" the two reads of line 208
\*   "absdiff" (211), "threshold" (214), "mask" (217), "area" (223-230),
\*   "contours" (234-237), "decide" (240-242)
\*   "pct_lock"        waiting for the lock (559); "pct_body" in the block
\*   "flag_lock"       waiting for the lock (572); "flag_body" in the block
\*   "callback_test"   the test of the callback (583)
\*   "call"            the call of the callback (585)
\*   "in_callback"     inside the callback, which may call get_status:
\*   "cb_lock"         waiting for the lock (656); "cb_body" in the block
\*   "assign"          last_state = current_state (590)
\*   "nap"             the read of check_interval (553, 592)
\*   "sleep"           in time.sleep
\*   "done"            the loop has ended
\* The locals of the thread are those of monitoring_loop (last_state,
\* consecutive_detections, obstructed, percentage) and of
\* _check_obstruction_internal (image and contour of the frame,
\* gray_shape, diff, pixels: thresh and then masked_diff, significant);
\* reads is the history of the thread's raw reads, the last MaxHistory of
\* them, nap the interval it sleeps.  yielded counts the frames the frame
\* source has returned to the loops, MaxFrames at most.
\* ------------------------------------------------------------------------

NotStarted ==
    [pc |-> "unborn", last_state |-> FALSE, consecutive_detections |-> 0,
     image |-> DarkImage, contour |-> 0, gray_shape |-> NoShape,
     diff |-> DarkImage, pixels |-> {}, significant |-> FALSE,
     obstructed |-> FALSE, percentage |-> ZeroPercentage, reads |-> <<>>,
     nap |-> 0]

\* A thread whose loop has ended; its locals are gone.
Ended == [NotStarted EXCEPT !.pc = "done"]

\* Frames the scanning loop is given: the dark image and the bright one,
\* with a contour above min_contour_area.
ScanFrames ==
    {[image |-> DarkImage, contour |-> 0],
     [image |-> BrightImage, contour |-> 2000]}

\* The last element of a non-empty sequence.
Last(seq) == seq[Len(seq)]

Remember(history, read) ==
    LET h == Append(history, read)
    IN IF Len(h) > MaxHistory THEN Tail(h) ELSE h

\* What a step of a scanning thread that writes none of the fields leaves
\* alone.
LoopFrame ==
    UNCHANGED <<engineFlags, engineState, engineConfig, caller, api, earlier,
                lock, notified, yielded, outside>>

\* What the return of the frame source, a step of the callback or the end
\* of a sleep leaves alone.
ReturnFrame ==
    UNCHANGED <<engineFlags, engineState, engineConfig, api, earlier, lock,
                notified, outside>>

\* The thread goes on at pc.
Step(t, pc) == loops' = [loops EXCEPT ![t].pc = pc]

\* The locals of _check_obstruction_internal are gone.
Forget(thread) ==
    [thread EXCEPT !.image = DarkImage, !.contour = 0,
                   !.gray_shape = NoShape, !.diff = DarkImage,
                   !.pixels = {}, !.significant = FALSE]

\* _check_obstruction_internal returns result to line 557.
Checked(t, result) ==
    loops' = [loops EXCEPT ![t] =
                 [Forget(@) EXCEPT !.obstructed = result.obstructed,
                                   !.percentage = result.percentage,
                                   !.pc = "pct_lock"]]

\* Variant of StartBegin: drawing_complete is not tested.
StartBegin_NotConfigured(with_callback, interval) ==
    /\ caller = Resting
    /\ IF monitoring_active
       THEN /\ Called("start_continuous_monitoring", NoArgs, RetTrue, NoResult)
            /\ UNCHANGED <<obstruction_callback, caller>>
       ELSE /\ monitoring_thread < MaxThreads
            /\ obstruction_callback' = with_callback
            /\ At("start_interval", "start_continuous_monitoring",
                  <<interval>>)
            /\ Calling("start_continuous_monitoring", NoArgs)
    /\ OwnerFrame
    /\ UNCHANGED <<drawing_complete, monitoring_active, monitoring_thread,
                   stop_flag, check_interval, engineState, engineConfig, lock,
                   earlier>>

\* perimeter.py:520-536: start_continuous_monitoring is called; on a
\* configured engine that is not scanning it stores the callback.
StartBegin(with_callback, interval) ==
    /\ caller = Resting
    /\ IF ~drawing_complete
       THEN /\ Called("start_continuous_monitoring", NoArgs, RetFalse, NoResult)
            /\ UNCHANGED <<obstruction_callback, caller>>
       ELSE IF monitoring_active
       THEN /\ Called("start_continuous_monitoring", NoArgs, RetTrue, NoResult)
            /\ UNCHANGED <<obstruction_callback, caller>>
       ELSE /\ monitoring_thread < MaxThreads
            /\ obstruction_callback' = with_callback
            /\ At("start_interval", "start_continuous_monitoring",
                  <<interval>>)
            /\ Calling("start_continuous_monitoring", NoArgs)
    /\ OwnerFrame
    /\ UNCHANGED <<drawing_complete, monitoring_active, monitoring_thread,
                   stop_flag, check_interval, engineState, engineConfig, lock,
                   earlier>>

\* perimeter.py:537
StartInterval ==
    /\ caller.pc = "start_interval"
    /\ check_interval' = Head(caller.todo)
    /\ At("start_active", caller.op, <<>>)
    /\ OwnerFrame
    /\ UNCHANGED <<drawing_complete, monitoring_active, monitoring_thread,
                   stop_flag, obstruction_callback, engineState, engineConfig,
                   lock, api, earlier>>

\* perimeter.py:538
StartActive ==
    /\ caller.pc = "start_active"
    /\ monitoring_active' = TRUE
    /\ Goto("start_clear")
    /\ OwnerFrame
    /\ UNCHANGED <<drawing_complete, monitoring_thread, stop_flag,
                   obstruction_callback, check_interval, engineState,
                   engineConfig, lock, api, earlier>>

\* perimeter.py:539
StartClear ==
    /\ caller.pc = "start_clear"
    /\ stop_flag' = FALSE
    /\ Goto("start_thread")
    /\ OwnerFrame
    /\ UNCHANGED <<drawing_complete, monitoring_active, monitoring_thread,
                   obstruction_callback, check_interval, engineState,
                   engineConfig, lock, api, earlier>>

\* perimeter.py:602-604: the thread is created, kept in monitoring_thread
\* and started (544-546), and the call returns True.
StartThread ==
    /\ caller.pc = "start_thread"
    /\ monitoring_thread' = monitoring_thread + 1
    /\ loops' = [loops EXCEPT ![monitoring_thread + 1] =
                    [NotStarted EXCEPT !.pc = "while"]]
    /\ Returns(RetTrue)
    /\ UNCHANGED <<drawing_complete, monitoring_active, stop_flag,
                   obstruction_callback, check_interval, engineState,
                   engineConfig, lock, earlier, notified, yielded,
                   outside>>

\* perimeter.py:548  while self.monitoring_active
LoopTest(t) ==
    /\ loops[t].pc = "while"
    /\ loops' = [loops EXCEPT ![t] =
                    IF monitoring_active
                    THEN [@ EXCEPT !.pc = "while_flag"] ELSE Ended]
    /\ LoopFrame

\* perimeter.py:548  and not self.stop_flag.is_set()
LoopTestFlag(t) ==
    /\ loops[t].pc = "while_flag"
    /\ loops' = [loops EXCEPT ![t] =
                    IF ~stop_flag THEN [@ EXCEPT !.pc = "fetch"] ELSE Ended]
    /\ LoopFrame

\* perimeter.py:551-553: get_frame_callback() returned None.
LoopNoFrame(t) ==
    /\ loops[t].pc = "fetch"
    /\ Step(t, "nap")
    /\ Leaves(t)
    /\ ReturnFrame
    /\ UNCHANGED yielded

\* perimeter.py:551-552, 557, 203: get_frame_callback() returned a frame of
\* the stream, and the check is entered.
LoopFetch(t, frame) ==
    /\ loops[t].pc = "fetch"
    /\ yielded < MaxFrames
    /\ yielded' = yielded + 1
    /\ loops' = [loops EXCEPT ![t].image = frame.image,
                              ![t].contour = frame.contour,
                              ![t].pc = "test_reference"]
    /\ Leaves(t)
    /\ ReturnFrame

\* perimeter.py:198  self.reference_frame is None
LoopTestReference(t) ==
    /\ loops[t].pc = "test_reference"
    /\ IF reference_frame.present
       THEN Step(t, "test_mask") ELSE Checked(t, NoResult)
    /\ LoopFrame

\* perimeter.py:198  self.mask is None
LoopTestMask(t) ==
    /\ loops[t].pc = "test_mask"
    /\ IF mask.present THEN Step(t, "shape") ELSE Checked(t, NoResult)
    /\ LoopFrame

\* perimeter.py:206: the frame has the nominal resolution; None has no
\* shape, and the except clause returns (False, 0.0) (244-247).
LoopShape(t) ==
    /\ loops[t].pc = "shape"
    /\ IF ~reference_frame.present THEN Checked(t, NoResult)
       ELSE IF reference_frame.shape = NominalShape
       THEN loops' = [loops EXCEPT ![t].gray_shape = NominalShape,
                                   ![t].pc = "absdiff"]
       ELSE Step(t, "resize_width")
    /\ LoopFrame

\* perimeter.py:208  self.reference_frame.shape[1]
LoopResizeWidth(t) ==
    /\ loops[t].pc = "resize_width"
    /\ IF ~reference_frame.present THEN Checked(t, NoResult)
       ELSE loops' = [loops EXCEPT ![t].gray_shape = reference_frame.shape,
                                   ![t].pc = "resize_height"]
    /\ LoopFrame

\* perimeter.py:208  self.reference_frame.shape[0]
LoopResizeHeight(t) ==
    /\ loops[t].pc = "resize_height"
    /\ IF ~reference_frame.present THEN Checked(t, NoResult)
       ELSE loops' = [loops EXCEPT
                         ![t].gray_shape =
                             IF reference_frame.shape = @
                             THEN @ ELSE MixedShape,
                         ![t].pc = "absdiff"]
    /\ LoopFrame

\* perimeter.py:211: cv2.absdiff raises on None and on two resolutions.
LoopAbsDiff(t) ==
    /\ loops[t].pc = "absdiff"
    /\ IF ~reference_frame.present
          \/ reference_frame.shape # loops[t].gray_shape
       THEN Checked(t, NoResult)
       ELSE loops' = [loops EXCEPT
                         ![t].diff = AbsDiff(reference_frame.image,
                                             loops[t].image),
                         ![t].pc = "threshold"]
    /\ LoopFrame

\* perimeter.py:214
LoopThreshold(t) ==
    /\ loops[t].pc = "threshold"
    /\ loops' = [loops EXCEPT
                    ![t].pixels =
                        Threshold(loops[t].diff,
                                  detection_parameters.difference_threshold),
                    ![t].diff = DarkImage,
                    ![t].pc = "mask"]
    /\ LoopFrame

\* perimeter.py:217: cv2.bitwise_and with mask=None applies no mask, and
\* raises on a mask of another resolution.
LoopMask(t) ==
    /\ loops[t].pc = "mask"
    /\ IF ~mask.present THEN Step(t, "area")
       ELSE IF mask.shape # loops[t].gray_shape THEN Checked(t, NoResult)
       ELSE loops' = [loops EXCEPT ![t].pixels = @ \cap mask.pixels,
                                   ![t].pc = "area"]
    /\ LoopFrame

\* perimeter.py:223-230: cv2.countNonZero raises on None.
LoopArea(t) ==
    /\ loops[t].pc = "area"
    /\ IF ~mask.present THEN Checked(t, NoResult)
       ELSE IF CountNonZero(mask.pixels) = 0 THEN Checked(t, NoResult)
       ELSE loops' = [loops EXCEPT
                         ![t].percentage =
                             Percentage(CountNonZero(loops[t].pixels),
                                        CountNonZero(mask.pixels)),
                         ![t].pc = "contours"]
    /\ LoopFrame

\* perimeter.py:233-237
LoopContours(t) ==
    /\ loops[t].pc = "contours"
    /\ loops' = [loops EXCEPT
                    ![t].significant =
                        Significant(loops[t].contour, loops[t].pixels,
                                    detection_parameters.min_contour_area),
                    ![t].pc = "decide"]
    /\ LoopFrame

\* perimeter.py:562-566
Debounce(consecutive_detections, obstructed) ==
    IF obstructed THEN consecutive_detections + 1 ELSE 0

\* perimeter.py:569
CurrentState(consecutive_detections) ==
    consecutive_detections >= required_consecutive

\* perimeter.py:240-242, 557
LoopDecide(t) ==
    /\ loops[t].pc = "decide"
    /\ \E obstructed \in
           {is_obstructed(loops[t].significant, loops[t].percentage,
                          detection_parameters.obstruction_threshold)} :
           /\ Debounce(loops[t].consecutive_detections, obstructed)
                  <= MaxConsecutive
           /\ Checked(t, [obstructed |-> obstructed,
                          percentage |-> loops[t].percentage])
    /\ LoopFrame

\* perimeter.py:559, 572 and, inside the callback, 656
LoopAcquire(t) ==
    /\ loops[t].pc \in {"pct_lock", "flag_lock", "cb_lock"}
    /\ Acquire(Thread(t))
    /\ Step(t, CASE loops[t].pc = "pct_lock" -> "pct_body"
                 [] loops[t].pc = "flag_lock" -> "flag_body"
                 [] OTHER -> "cb_body")
    /\ UNCHANGED <<engineFlags, engineState, engineConfig, caller, api,
                   earlier, notified, yielded,
                   outside>>

\* perimeter.py:560-571: the percentage is stored under the lock, the read
\* is debounced.
LoopPctBody(t) ==
    /\ loops[t].pc = "pct_body"
    /\ current_obstruction_pct' = loops[t].percentage
    /\ Release(Thread(t))
    /\ LET n == Debounce(loops[t].consecutive_detections, loops[t].obstructed)
       IN /\ n <= MaxConsecutive
          /\ loops' = [loops EXCEPT
                          ![t].reads = Remember(@, loops[t].obstructed),
                          ![t].consecutive_detections = n,
                          ![t].obstructed = FALSE,
                          ![t].percentage = ZeroPercentage,
                          ![t].pc = IF CurrentState(n) # loops[t].last_state
                                    THEN "flag_lock" ELSE "nap"]
    /\ UNCHANGED <<engineFlags, obstruction_detected, engineConfig, caller,
                   api, earlier, notified, yielded,
                   outside>>

\* perimeter.py:572-573
LoopFlagBody(t) ==
    /\ loops[t].pc = "flag_body"
    /\ obstruction_detected' = CurrentState(loops[t].consecutive_detections)
    /\ Release(Thread(t))
    /\ Step(t, "callback_test")
    /\ UNCHANGED <<engineFlags, current_obstruction_pct, engineConfig, caller,
                   api, earlier, notified, yielded,
                   outside>>

\* perimeter.py:583  if self.obstruction_callback
LoopCallbackTest(t) ==
    /\ loops[t].pc = "callback_test"
    /\ Step(t, IF obstruction_callback THEN "call" ELSE "assign")
    /\ LoopFrame

\* perimeter.py:585-588: self.obstruction_callback is read again and
\* called; calling None raises, and the except clause goes on.
LoopCallbackCall(t) ==
    /\ loops[t].pc = "call"
    /\ IF obstruction_callback
       THEN /\ notified' = [bit |-> 1 - notified.bit,
                            state |-> CurrentState(
                                          loops[t].consecutive_detections)]
            /\ Step(t, "in_callback")
       ELSE /\ notified' = notified
            /\ Step(t, "assign")
    /\ UNCHANGED <<engineFlags, engineState, engineConfig, caller, api,
                   earlier, lock, yielded,
                   outside>>

\* perimeter.py:654-656: the callback calls get_status.
LoopCallbackStatus(t) ==
    /\ loops[t].pc = "in_callback"
    /\ Step(t, "cb_lock")
    /\ Leaves(t)
    /\ ReturnFrame
    /\ UNCHANGED yielded

\* perimeter.py:657-667, inside the callback
LoopStatusBody(t) ==
    /\ loops[t].pc = "cb_body"
    /\ Release(Thread(t))
    /\ Step(t, "in_callback")
    /\ UNCHANGED <<engineFlags, engineState, engineConfig, caller, api,
                   earlier, notified, yielded,
                   outside>>

\* perimeter.py:585: the callback returns.
LoopCallbackReturn(t) ==
    /\ loops[t].pc = "in_callback"
    /\ Step(t, "assign")
    /\ Leaves(t)
    /\ ReturnFrame
    /\ UNCHANGED yielded

\* perimeter.py:590
LoopAssign(t) ==
    /\ loops[t].pc = "assign"
    /\ loops' = [loops EXCEPT
                    ![t].last_state =
                        CurrentState(loops[t].consecutive_detections),
                    ![t].pc = "nap"]
    /\ LoopFrame

\* perimeter.py:553, 592  time.sleep(self.check_interval)
LoopNap(t) ==
    /\ loops[t].pc = "nap"
    /\ loops' = [loops EXCEPT ![t].nap = check_interval, ![t].pc = "sleep"]
    /\ LoopFrame

\* perimeter.py:553, 592: the sleep ends.
LoopWake(t) ==
    /\ loops[t].pc = "sleep"
    /\ loops' = [loops EXCEPT ![t].nap = 0, ![t].pc = "while"]
    /\ Leaves(t)
    /\ ReturnFrame
    /\ UNCHANGED yielded

\* perimeter.py:13-43: the monitor as its constructor leaves it.
InitMonitor ==
    /\ drawing_complete = FALSE
    /\ perimeter_points = <<>>
    /\ mask = NoMask
    /\ reference_frame = NoReference
    /\ detection_parameters = DefaultParameters
    /\ check_interval = default_check_interval
    /\ api = [bit |-> 0, op |-> "none", args |-> NoArgs, ret |-> None,
              result |-> NoResult]
    /\ earlier = NoEarlier
    /\ monitoring_active = FALSE
    /\ monitoring_thread = 0
    /\ stop_flag = FALSE
    /\ obstruction_callback = FALSE
    /\ obstruction_detected = FALSE
    /\ current_obstruction_pct = ZeroPercentage
    /\ loops = [t \in Threads |-> NotStarted]
    /\ caller = Resting
    /\ notified = [bit |-> 0, state |-> FALSE]
    /\ yielded = 0
    /\ lock = Free

\* perimeter.py:13-43, then a perimeter configured by
\* set_polygonal_perimeter (512-518): three vertices, a mask that covers
\* every pixel, a dark reference.
InitPerimeter ==
    /\ drawing_complete = TRUE
    /\ perimeter_points = <<1, 2, 3>>
    /\ mask = Mask(Pixels, NominalShape)
    /\ reference_frame = Gray(DarkImage, NominalShape)
    /\ detection_parameters = DefaultParameters
    /\ check_interval = default_check_interval
    /\ api = [bit |-> 1, op |-> "set_polygonal_perimeter",
              args |-> Args(3, DarkImage, 0, NominalShape), ret |-> RetTrue,
              result |-> NoResult]
    /\ earlier = NoEarlier
    /\ monitoring_active = FALSE
    /\ monitoring_thread = 0
    /\ stop_flag = FALSE
    /\ obstruction_callback = FALSE
    /\ obstruction_detected = FALSE
    /\ current_obstruction_pct = ZeroPercentage
    /\ loops = [t \in Threads |-> NotStarted]
    /\ caller = Resting
    /\ notified = [bit |-> 0, state |-> FALSE]
    /\ yielded = 0
    /\ lock = Free

\* ------------------------------------------------------------------------
\* MonitorScreen: one acquisition / arbitration cycle
\*
\* A machine value carries the alert timeline through the statements of
\* monitor_loop: ch is the channel to the sink, calls the commands whose
\* send_* method the cycle called, in call order.
\* ------------------------------------------------------------------------

Machine(budget) ==
    [ch |-> Channel(tx, budget), calls |-> <<>>,
     active |-> obstruction_alert_active,
     start |-> obstruction_start_time,
     sent |-> obstruction_signal_sent,
     drowning |-> last_drowning_state]

\* main.py:1203-1207
ObstructionOnset(m, current_time) ==
    IF ~m.active
    THEN [m EXCEPT !.start = current_time, !.active = TRUE, !.sent = FALSE]
    ELSE m

\* Variant of ObstructionSignal: level-triggered, the signal is sent in every
\* positive cycle.
ObstructionSignal_EveryCycle(m) ==
    [m EXCEPT !.ch = send_obstruction_alert(@),
              !.calls = Append(@, CMD_OBSTRUCTION),
              !.sent = TRUE]

\* Variant of ObstructionSignal: the signal counts as sent only when the
\* send returned True.
ObstructionSignal_UntilWritten(m) ==
    IF ~m.sent
    THEN LET ch == send_obstruction_alert(m.ch)
         IN [m EXCEPT !.ch = ch,
                      !.calls = Append(@, CMD_OBSTRUCTION),
                      !.sent = (ch.ret = RetTrue)]
    ELSE m

\* main.py:1213-1217
ObstructionSignal(m) ==
    IF ~m.sent
    THEN [m EXCEPT !.ch = send_obstruction_alert(@),
                   !.calls = Append(@, CMD_OBSTRUCTION),
                   !.sent = TRUE]
    ELSE m

\* Variant of OverrideDrowning: the clear is sent but DROWNING_ACTIVE stays
\* set.
OverrideDrowning_KeepsFlag(m) ==
    IF m.drowning
    THEN [m EXCEPT !.ch = send_clear_alert(@),
                   !.calls = Append(@, CMD_CLEAR)]
    ELSE m

\* main.py:1225-1228
OverrideDrowning(m) ==
    IF m.drowning
    THEN [m EXCEPT !.ch = send_clear_alert(@),
                   !.calls = Append(@, CMD_CLEAR),
                   !.drowning = FALSE]
    ELSE m

\* main.py:1232-1248
ObstructionRelease(m, current_time) ==
    IF current_time - m.start >= Seconds(obstruction_min_duration)
    THEN [m EXCEPT !.ch = send_clear_alert(@),
                   !.calls = Append(@, CMD_CLEAR),
                   !.active = FALSE,
                   !.sent = FALSE]
    ELSE m

\* main.py:1199-1248
HandleObstruction(m, current_obstruction, current_time) ==
    IF ~bluetooth_connected THEN m
    ELSE IF current_obstruction
    THEN OverrideDrowning(ObstructionSignal(ObstructionOnset(m, current_time)))
    ELSE IF m.active
    THEN ObstructionRelease(m, current_time)
    ELSE m

\* Variant of HandleDrowning: level-triggered, DROWNING is sent in every
\* cycle whose hazardFlag is true.
HandleDrowning_LevelTriggered(m, detected) ==
    IF ~(bluetooth_connected /\ ~m.active) THEN m
    ELSE IF detected
    THEN [m EXCEPT !.ch = send_drowning_alert(@),
                   !.calls = Append(@, CMD_DROWNING),
                   !.drowning = TRUE]
    ELSE IF m.drowning
    THEN [m EXCEPT !.ch = send_clear_alert(@),
                   !.calls = Append(@, CMD_CLEAR),
                   !.drowning = FALSE]
    ELSE m

\* main.py:1251-1265
HandleDrowning(m, detected) ==
    IF ~(bluetooth_connected /\ ~m.active) THEN m
    ELSE IF detected /\ ~m.drowning
    THEN [m EXCEPT !.ch = send_drowning_alert(@),
                   !.calls = Append(@, CMD_DROWNING),
                   !.drowning = TRUE]
    ELSE IF ~detected /\ m.drowning
    THEN [m EXCEPT !.ch = send_clear_alert(@),
                   !.calls = Append(@, CMD_CLEAR),
                   !.drowning = FALSE]
    ELSE m

\* main.py:1173-1176, the clock read at 1176.
PerimeterSampled ==
    perimeter_enabled /\ now - last_perimeter_check > Seconds(perimeter_interval)

\* What the last cycle of monitor_loop, or stop_monitoring, did: which of
\* the two it was, the arbitration state it found, its inputs (hazardFlag,
\* whether the perimeter was sampled and what the check returned), the time
\* since the onset of the obstruction when an obstruction alert was or
\* became active, the sends it called and the bytes the port took.  reads
\* tells what the perimeter checks of the obstruction episode returned so
\* far: "none" outside an episode, "positive" while every sampled check
\* since its onset returned obstructed, "mixed" once one returned not
\* obstructed.
NoCycle ==
    [kind |-> "none", was_active |-> FALSE, was_drowning |-> FALSE,
     detected |-> FALSE, sampled |-> FALSE, obstructed |-> FALSE,
     current_obstruction |-> FALSE, elapsed |-> 0, calls |-> <<>>,
     wire |-> <<>>, reads |-> "none"]

\* The sink keeps the last command it received: <<>> before the first one.
SinkAfter(ch) == IF ch.out = <<>> THEN sink ELSE <<Last(ch.out)>>

\* Time that passes inside a cycle between two reads of the clock.
Lags == {0, Seconds(1)}

\* The reads of the episode after a cycle that ends active.
EpisodeReads(active, sampled, obstructed) ==
    IF ~active THEN "none"
    ELSE IF ~obstruction_alert_active THEN "positive"
    ELSE IF sampled /\ ~obstructed THEN "mixed"
    ELSE cyc.reads

\* main.py:1169-1349, the cycle after detect_frame has returned.  detected
\* is the hazardFlag it returned, frame what the perimeter check sees in
\* the frame, budget the writes the serial port accepts during the cycle.
\* The cycle reads the clock three times: for the sampling test (1176), for
\* last_perimeter_check after the check (1194) and for current_time
\* (1201, 1231); check_lag and arb_lag are the times between them.
Arbitrate(detected, frame, check_lag, arb_lag, budget) ==
    LET sampled == PerimeterSampled
        stamp_time == now + check_lag
        current_time == stamp_time + arb_lag
    IN \E check \in {check_obstruction(TRUE, MaskArea, frame)} :
       LET current_obstruction ==
               /\ sampled
               /\ check.obstructed
               /\ PctGE(check.percentage, arbitration_min_percentage)
       IN \E m \in {HandleDrowning(
                        HandleObstruction(Machine(budget), current_obstruction,
                                          current_time),
                        detected)} :
           /\ now' = current_time
           /\ last_perimeter_check' =
                  IF sampled THEN stamp_time ELSE last_perimeter_check
           /\ obstruction_alert_active' = m.active
           /\ obstruction_start_time' = m.start
           /\ obstruction_signal_sent' = m.sent
           /\ last_drowning_state' = m.drowning
           /\ tx' = Transmitter(m.ch)
           /\ sink' = SinkAfter(m.ch)
           /\ cyc' = [kind |-> "cycle",
                      was_active |-> obstruction_alert_active,
                      was_drowning |-> last_drowning_state,
                      detected |-> detected,
                      sampled |-> sampled,
                      obstructed |-> sampled /\ check.obstructed,
                      current_obstruction |-> current_obstruction,
                      elapsed |-> IF obstruction_alert_active \/ m.active
                                  THEN current_time - m.start ELSE 0,
                      calls |-> m.calls,
                      wire |-> m.ch.out,
                      reads |-> EpisodeReads(m.active, sampled,
                                             check.obstructed)]

\* self.root: the window of the MonitorScreen.  "waiting" from show()
\* (main.py:1383-1385) until the callback of start_monitoring runs,
\* "failed" while that callback is inside messagebox.showerror
\* (main.py:1070), "looping" while monitor_loop is scheduled, "destroyed"
\* after self.root.destroy() (main.py:1374); "none" where no window exists.
RootStates == {"none", "waiting", "failed", "looping", "destroyed"}

\* The window handles one event at a time: a button is served while the
\* window exists, no callback of monitor_loop is inside detect_frame and
\* no modal dialog is open.
WindowIdle == root \in {"waiting", "looping"} /\ submitter.pc = "idle"

\* main.py:1101-1135 and detect.py:163-168: a callback of monitor_loop
\* scheduled by an earlier one (main.py:1111-1120, 1344) begins on a camera
\* frame and enters detect_frame.  The statements of detect_frame up to
\* its return are the next steps of the callback; the worker thread and
\* the clock run in between.  A callback whose cap.read fails schedules
\* the next one and changes nothing.
MonitorCycle ==
    /\ running
    /\ root = "looping"
    /\ ~using_fallback_detector
    /\ DetectFrame(1)
    /\ UNCHANGED <<now, arbVars>>

\* detect.py:188 and main.py:1135-1349: detect_frame returns and the
\* callback arbitrates on the hazardFlag returned.
MonitorReturn(frame, check_lag, arb_lag, budget) ==
    /\ DetectFrameReturn
    /\ Arbitrate(call'.result.detected_flag, frame, check_lag, arb_lag,
                 budget)
    /\ UNCHANGED <<root, connecting, running, bluetooth_connected,
                   perimeter_enabled>>

\* main.py:1012-1019 and 1135: the call of detect_frame of the
\* BasicDetector, which has no state, on a camera frame.
BasicCall(camera) ==
    [bit |-> 1 - call.bit, frame |-> camera, path |-> "basic",
     result |-> BasicDetectFrame(camera), in_hold |-> FALSE]

\* main.py:1101-1349 with the BasicDetector: the whole callback.
MonitorCycleFallback(camera, frame, check_lag, arb_lag, budget) ==
    /\ running
    /\ root = "looping"
    /\ using_fallback_detector
    /\ call' = BasicCall(camera)
    /\ Arbitrate(call'.result.detected_flag, frame, check_lag, arb_lag,
                 budget)
    /\ detection_error_count' = 0
    /\ UNCHANGED <<root, connecting, running, bluetooth_connected,
                   perimeter_enabled, processing, detection_queue,
                   last_valid_result, last_event_time, last_detection_time,
                   frame_counter, worker, submitter, inference,
                   using_fallback_detector>>

\* main.py:967-984: the buttons of the monitoring window, test_drowning_alert,
\* test_obstruction_alert and test_clear_alerts.  They test
\* config['bluetooth_connected'], call the send of their command on the
\* transmitter of the session and touch no field of the arbitration.
TestAlert(op, budget) ==
    /\ WindowIdle
    /\ bluetooth_connected
    /\ LET ch == SendCall(op, Channel(tx, budget))
       IN /\ tx' = Transmitter(ch)
          /\ sink' = SinkAfter(ch)
    /\ UNCHANGED <<now, root, connecting, running, bluetooth_connected,
                   perimeter_enabled, last_perimeter_check,
                   obstruction_alert_active, obstruction_start_time,
                   obstruction_signal_sent, last_drowning_state, cyc>>

\* main.py:1351-1381: stop_monitoring, whatever self.running is: it clears
\* running, sends the clear when config['bluetooth_connected'] and
\* destroys the window.
StopMonitoring(budget) ==
    /\ running' = FALSE
    /\ root' = "destroyed"
    /\ LET ch0 == Channel(tx, budget)
           ch == IF bluetooth_connected THEN send_clear_alert(ch0) ELSE ch0
       IN /\ tx' = Transmitter(ch)
          /\ sink' = SinkAfter(ch)
          /\ cyc' = [kind |-> "stop",
                     was_active |-> obstruction_alert_active,
                     was_drowning |-> last_drowning_state,
                     detected |-> FALSE,
                     sampled |-> FALSE,
                     obstructed |-> FALSE,
                     elapsed |-> IF obstruction_alert_active
                                 THEN now - obstruction_start_time ELSE 0,
                     current_obstruction |-> FALSE,
                     calls |-> IF bluetooth_connected THEN <<CMD_CLEAR>> ELSE <<>>,
                     wire |-> ch.out,
                     reads |-> cyc.reads]
    /\ UNCHANGED <<now, connecting, bluetooth_connected, perimeter_enabled,
                   last_perimeter_check, obstruction_alert_active,
                   obstruction_start_time, obstruction_signal_sent,
                   last_drowning_state>>

\* main.py:926: the Stop Monitoring button.
StopButton(budget) ==
    /\ WindowIdle
    /\ StopMonitoring(budget)

\* main.py:1070-1071: the error dialog of start_monitoring is dismissed
\* and the except branch calls stop_monitoring.
DismissError(budget) ==
    /\ root = "failed"
    /\ StopMonitoring(budget)

\* main.py:986-1023: initialize_detector_with_fallback.  constructed is
\* false when RealtimeDetector(...) raises.  On a constructed detector,
\* whose constructor started the worker thread (detect.py:52), it calls
\* detect_frame once, on a blank frame (here frame 1): the call passes the
\* interval test, counts the frame and returns the placeholder; the slot
\* is not touched, and the worker finds it empty whenever it polls.
InitializeDetector(constructed) ==
    /\ using_fallback_detector' = initialize_detector_with_fallback(constructed)
    /\ IF constructed
       THEN /\ processing' = TRUE
            /\ frame_counter' = 1
            /\ worker' = [w \in Workers |-> IF w = 1 THEN WorkerAt("poll")
                                           ELSE WorkerAt("unborn")]
       ELSE UNCHANGED <<processing, frame_counter, worker>>
    /\ UNCHANGED <<detection_queue, last_valid_result, last_event_time,
                   last_detection_time, inference>>

\* The return of the detect_frame on the blank frame (main.py:997).
BlankCall ==
    [bit |-> 1, frame |-> 1, path |-> "skipped",
     result |-> _create_default_result, in_hold |-> FALSE]

\* main.py:1048-1064: running is set and the arbitration is reset to the
\* values the constructor gave it (main.py:811-823).
StartRunning ==
    /\ running' = TRUE
    /\ root' = "looping"
    /\ last_drowning_state' = FALSE
    /\ obstruction_alert_active' = FALSE
    /\ obstruction_start_time' = 0
    /\ obstruction_signal_sent' = FALSE
    /\ UNCHANGED <<now, last_perimeter_check, tx, sink, cyc>>

\* main.py:1025-1071: the callback of start_monitoring, whole.  opened is
\* false when opening the video source raises: the except branch shows
\* the error dialog, running not yet set.  Otherwise the callback sets
\* running, resets the arbitration and calls monitor_loop (1067), whose
\* cap.read fails (read_ok false: the next callback is scheduled,
\* main.py:1107-1121) or gives the first frame.  With a RealtimeDetector
\* the callback then is inside detect_frame (detect.py:168); with the
\* BasicDetector the first cycle runs to its end inside this callback, on
\* the arbitration state the reset left, which is the state of the
\* constructor.
StartMonitoring(constructed, opened, read_ok, camera, frame, check_lag, arb_lag, budget) ==
    /\ root = "waiting"
    /\ InitializeDetector(constructed)
    /\ UNCHANGED <<connecting, bluetooth_connected, perimeter_enabled>>
    /\ IF ~opened
       THEN /\ root' = "failed"
            /\ call' = IF constructed THEN BlankCall ELSE call
            /\ UNCHANGED <<now, running, last_perimeter_check,
                           obstruction_alert_active, obstruction_start_time,
                           obstruction_signal_sent, last_drowning_state, tx,
                           sink, cyc, submitter, detection_error_count>>
       ELSE IF ~read_ok
       THEN /\ StartRunning
            /\ call' = IF constructed THEN BlankCall ELSE call
            /\ detection_error_count' = 0
            /\ UNCHANGED submitter
       ELSE IF constructed
       THEN /\ StartRunning
            /\ call' = BlankCall
            /\ detection_error_count' = 0
            /\ submitter' = Submitter("interval", 1, now, "none")
       ELSE /\ running' = TRUE
            /\ root' = "looping"
            /\ call' = BasicCall(camera)
            /\ Arbitrate(call'.result.detected_flag, frame, check_lag,
                         arb_lag, budget)
            /\ detection_error_count' = 0
            /\ UNCHANGED submitter

\* The wall clock between two operations of the session.
AdvanceTimeArb ==
    /\ now' = now + Seconds(1)
    /\ UNCHANGED arbVars

\* Writes the serial port accepts during one operation before it raises.
WriteBudgets == 0..2

\* main.py:511-530 and 738-771: the transmitter as the setup screen leaves
\* it when Start is clicked, and config['bluetooth_connected'], the
\* connected flag at that click (main.py:743).  At rest: the port was
\* never opened; it is connected, after no command or after the clear of
\* an earlier disconnect; or it is not connected: it was disconnected; the
\* test write of connect() failed, on a fresh port or after the clear of
\* an earlier disconnect; the port is closed and nothing was written (the
\* write of disconnect was rejected, or a reconnect did not open the
\* port).  Or the connect thread (main.py:522-526) has just been started
\* on any of the five transmitters at rest that are not connected; its
\* later places are reached by its steps.  connected is false while the
\* thread runs: the button that starts it is disabled until it ends
\* (main.py:527).
SetupOutcomes ==
    {[ser |-> FALSE, is_open |-> FALSE, connected |-> FALSE,
      connecting |-> "idle", sink |-> <<>>],
     [ser |-> TRUE, is_open |-> TRUE, connected |-> TRUE,
      connecting |-> "idle", sink |-> <<>>],
     [ser |-> TRUE, is_open |-> TRUE, connected |-> TRUE,
      connecting |-> "idle", sink |-> <<CMD_CLEAR>>],
     [ser |-> TRUE, is_open |-> FALSE, connected |-> FALSE,
      connecting |-> "idle", sink |-> <<CMD_CLEAR>>],
     [ser |-> TRUE, is_open |-> TRUE, connected |-> FALSE,
      connecting |-> "idle", sink |-> <<>>],
     [ser |-> TRUE, is_open |-> TRUE, connected |-> FALSE,
      connecting |-> "idle", sink |-> <<CMD_CLEAR>>],
     [ser |-> TRUE, is_open |-> FALSE, connected |-> FALSE,
      connecting |-> "idle", sink |-> <<>>],
     [ser |-> FALSE, is_open |-> FALSE, connected |-> FALSE,
      connecting |-> "closing", sink |-> <<>>],
     [ser |-> TRUE, is_open |-> FALSE, connected |-> FALSE,
      connecting |-> "closing", sink |-> <<CMD_CLEAR>>],
     [ser |-> TRUE, is_open |-> TRUE, connected |-> FALSE,
      connecting |-> "closing", sink |-> <<>>],
     [ser |-> TRUE, is_open |-> TRUE, connected |-> FALSE,
      connecting |-> "closing", sink |-> <<CMD_CLEAR>>],
     [ser |-> TRUE, is_open |-> FALSE, connected |-> FALSE,
      connecting |-> "closing", sink |-> <<>>]}

\* main.py:799-830 and 1383-1385: the MonitorScreen as its constructor
\* leaves it, shown, with the callback of start_monitoring pending.
InitSession ==
    /\ now = Epoch
    /\ root = "waiting"
    /\ running = FALSE
    /\ perimeter_enabled \in BOOLEAN
    /\ last_perimeter_check = 0
    /\ obstruction_alert_active = FALSE
    /\ obstruction_start_time = 0
    /\ obstruction_signal_sent = FALSE
    /\ last_drowning_state = FALSE
    /\ \E setup \in SetupOutcomes :
           /\ tx = [ser |-> setup.ser, is_open |-> setup.is_open,
                    connected |-> setup.connected,
                    obstruction_pulsing |-> FALSE, stop_pulse |-> FALSE]
           /\ bluetooth_connected = setup.connected
           /\ connecting = setup.connecting
           /\ sink = setup.sink
    /\ sent = NoSend
    /\ pulse_threads = [t \in PulseThreads |-> "unborn"]
    /\ commander = Idle
    /\ last_writer = "none"
    /\ cyc = NoCycle

\* main.py:807: self.detector = None.  No RealtimeDetector exists: the
\* fields of the detector are those its constructor sets before it loads
\* the model (detect.py:14-32), and there is no worker thread.
InitNoDetector ==
    /\ processing = FALSE
    /\ detection_queue = <<>>
    /\ last_valid_result = _create_default_result
    /\ last_event_time = 0
    /\ last_detection_time = 0
    /\ frame_counter = 0
    /\ worker = [w \in Workers |-> WorkerAt("unborn")]
    /\ submitter = NoCall
    /\ call = [bit |-> 0, frame |-> NoFrame, path |-> "none",
               result |-> _create_default_result, in_hold |-> FALSE]
    /\ inference = [failures |-> 0, after_failure |-> FALSE]
    /\ detection_error_count = 0
    /\ using_fallback_detector = FALSE

InitArb ==
    /\ InitSession
    /\ InitNoDetector
    /\ InitPerimeter

\* The session whose transmitter was connected when Start was clicked.
InitConnected ==
    /\ InitArb
    /\ bluetooth_connected

\* What the inference engine does on a frame of the session: it finds
\* nobody, or it finds a swimmer and a drowning.
SessionOutcomes ==
    {outcome \in InferenceOutcomes :
        /\ ~outcome.raises /\ ~outcome.plot_none /\ ~outcome.box_error
        /\ outcome.names \in {<<>>, <<NameSwimming, NameDrowning>>}}

\* The inputs that a cycle in this state reads: the frame reaches the
\* perimeter check only in a sampling cycle, the serial port is written only
\* while the transmitter is connected.
CycleFrames ==
    IF PerimeterSampled THEN PerimeterFrames
    ELSE {[changed |-> 0, sig |-> FALSE]}

CheckLags(lags) == IF PerimeterSampled THEN lags ELSE {0}

SessionBudgets(budgets) == IF tx.connected THEN budgets ELSE {0}

\* The callback of start_monitoring; the inputs of a first cycle are drawn
\* where the callback runs one to its end.
StartMonitoringStep(lags, budgets) ==
    \E constructed \in BOOLEAN, opened \in BOOLEAN, read_ok \in BOOLEAN :
        IF ~constructed /\ opened /\ read_ok
        THEN \E camera \in CameraFrames, frame \in CycleFrames,
                check_lag \in CheckLags(lags), arb_lag \in lags,
                budget \in SessionBudgets(budgets) :
                 StartMonitoring(constructed, opened, read_ok, camera, frame,
                                 check_lag, arb_lag, budget)
        ELSE StartMonitoring(constructed, opened, read_ok, 1,
                             [changed |-> 0, sig |-> FALSE], 0, 0, 0)

DismissErrorStep(budgets) ==
    /\ \E budget \in SessionBudgets(budgets) : DismissError(budget)
    /\ UNCHANGED detVars

MonitorCycleStep == MonitorCycle

MonitorReturnStep(lags, budgets) ==
    \E frame \in CycleFrames, check_lag \in CheckLags(lags), arb_lag \in lags,
       budget \in SessionBudgets(budgets) :
        MonitorReturn(frame, check_lag, arb_lag, budget)

MonitorCycleFallbackStep(lags, budgets) ==
    \E camera \in CameraFrames, frame \in CycleFrames,
       check_lag \in CheckLags(lags), arb_lag \in lags,
       budget \in SessionBudgets(budgets) :
        MonitorCycleFallback(camera, frame, check_lag, arb_lag, budget)

TestAlertStep(budgets) ==
    /\ \E op \in AlertOps, budget \in SessionBudgets(budgets) :
           TestAlert(op, budget)
    /\ UNCHANGED detVars

StopButtonStep(budgets) ==
    /\ \E budget \in SessionBudgets(budgets) : StopButton(budget)
    /\ UNCHANGED detVars

\* The connect thread of the setup screen, still running beside the
\* session.
ConnectThreadStep ==
    /\ ConnectThread
    /\ UNCHANGED <<now, root, running, bluetooth_connected, perimeter_enabled,
                   last_perimeter_check, obstruction_alert_active,
                   obstruction_start_time, obstruction_signal_sent,
                   last_drowning_state, cyc, detVars>>

WorkerInferSession ==
    \E w \in Workers, outcome \in SessionOutcomes : WorkerInfer(w, outcome)

\* The callbacks of the window (start_monitoring and its error dialog,
\* monitor_loop, the buttons), the statements of detect_frame inside a
\* callback and the clock.  lags are the times that pass inside a cycle,
\* budgets the writes the port accepts during one operation.
SessionCallbacks(lags, budgets) ==
    \/ StartMonitoringStep(lags, budgets)
    \/ DismissErrorStep(budgets)
    \/ MonitorCycleStep
    \/ DetectFrameInterval /\ UNCHANGED <<now, arbVars>>
    \/ DetectFrameTest /\ UNCHANGED <<now, arbVars>>
    \/ DetectFramePut /\ UNCHANGED <<now, arbVars>>
    \/ MonitorReturnStep(lags, budgets)
    \/ MonitorCycleFallbackStep(lags, budgets)
    \/ TestAlertStep(budgets)
    \/ StopButtonStep(budgets)
    \/ AdvanceTimeArb /\ UNCHANGED detVars

\* The worker thread of the session up to the inference.  Nothing in
\* main.py calls cleanup() or start_processing_thread() of the detector:
\* processing stays true and the worker is the one the constructor started,
\* whose get_nowait finds the frame its test of the slot saw.
WorkerFetches ==
    /\ \E w \in Workers : WorkerPoll(w) \/ WorkerSlot(w) \/ WorkerTake(w)
    /\ UNCHANGED arbVars

\* The inference of the worker thread and the statements after it.
WorkerProcesses ==
    /\ \/ WorkerInferSession
       \/ \E w \in Workers :
              WorkerEvent(w) \/ WorkerHold(w) \/ WorkerStore(w) \/ WorkerStamp(w)
    /\ UNCHANGED arbVars

\* The threads of the session.
SessionThreads(lags, budgets) ==
    SessionCallbacks(lags, budgets) \/ WorkerFetches \/ WorkerProcesses

\* The clock has not passed max_seconds and the frame count not
\* max_frames.
Within(max_seconds, max_frames) ==
    /\ now' <= Epoch + Seconds(max_seconds)
    /\ frame_counter' <= max_frames

\* The session of any setup, with every lag and every write budget, until
\* the clock reaches MaxSecondsArb or the frame count MaxSessionFrames.
NextArb ==
    /\ SessionThreads(Lags, WriteBudgets) \/ ConnectThreadStep
    /\ Within(MaxSecondsArb, MaxSessionFrames)
    /\ UNCHANGED <<scanVars, cfgVars, txVars, lockVars>>

SpecArb == InitArb /\ [][NextArb]_vars

\* The budgets of a port that accepts every write of an operation.
AcceptingBudgets == {b \in WriteBudgets : \A c \in WriteBudgets : c <= b}

\* The connected session whose port accepts every write and whose cycles
\* take no time: it outlasts obstruction_min_duration within
\* MaxHoldFrames frames, or counts MaxFrameCounter frames, two of which
\* the worker infers, within MaxSecondsDrown.
NextHold ==
    /\ SessionThreads({0}, AcceptingBudgets)
    /\ \/ Within(MaxSecondsHold, MaxHoldFrames)
       \/ Within(MaxSecondsDrown, MaxFrameCounter)
    /\ UNCHANGED <<scanVars, cfgVars, txVars, lockVars>>

SpecHold == InitConnected /\ [][NextHold]_vars

\* The connected session in which the worker infers twice, with every lag
\* and every write budget.
NextDrown ==
    /\ SessionThreads(Lags, WriteBudgets)
    /\ Within(MaxSecondsDrown, MaxFrameCounter)
    /\ UNCHANGED <<scanVars, cfgVars, txVars, lockVars>>

SpecDrown == InitConnected /\ [][NextDrown]_vars

\* The session part of the state while only the detector runs.
InitSessionIdle ==
    /\ root = "none"
    /\ connecting = "idle"
    /\ running = FALSE
    /\ bluetooth_connected = FALSE
    /\ perimeter_enabled = FALSE
    /\ last_perimeter_check = 0
    /\ obstruction_alert_active = FALSE
    /\ obstruction_start_time = 0
    /\ obstruction_signal_sent = FALSE
    /\ last_drowning_state = FALSE
    /\ tx = NewTransmitter
    /\ sink = <<>>
    /\ sent = NoSend
    /\ pulse_threads = [t \in PulseThreads |-> "unborn"]
    /\ commander = Idle
    /\ last_writer = "none"
    /\ cyc = NoCycle

InitDet ==
    /\ now = Epoch
    /\ InitSessionIdle
    /\ InitDetector
    /\ InitPerimeter

DetectFrameStep ==
    /\ \E frame \in CameraFrames \cup {NoFrame} : DetectFrame(frame)
    /\ UNCHANGED now

\* The statements of detect_frame after its first.
DetectFrameStatement ==
    /\ \/ DetectFrameInterval
       \/ DetectFrameTest
       \/ DetectFramePut
       \/ DetectFrameReturn
    /\ frame_counter' <= MaxFrameCounter
    /\ UNCHANGED now

WorkerInferStep ==
    \E w \in Workers, outcome \in InferenceOutcomes : WorkerInfer(w, outcome)

\* The detector with the worker thread its constructor started, under
\* detect_frame and cleanup, and the clock.  One thread runs the loop: its
\* get_nowait finds the frame its test of the slot saw.
NextDet ==
    /\ \/ DetectFrameStep
       \/ DetectFrameStatement
       \/ \E w \in Workers : WorkerStatement(w) \/ WorkerExit(w)
       \/ WorkerInferStep
       \/ Cleanup
       \/ AdvanceTimeDet
    /\ UNCHANGED <<arbVars, scanVars, cfgVars, txVars, lockVars>>

SpecDet == InitDet /\ [][NextDet]_vars

\* What the inference engine does on a frame while several threads run the
\* loop: it raises, it finds nobody, or it finds a swimmer and a drowning.
ThreadOutcomes ==
    {outcome \in InferenceOutcomes :
        /\ ~outcome.plot_none /\ ~outcome.box_error
        /\ outcome.names \in {<<>>, <<NameSwimming, NameDrowning>>}}

\* The camera delivers its frames in turn.
FrameInTurn == (frame_counter % NumFrames) + 1

DetectFrameInTurn ==
    /\ \/ DetectFrame(FrameInTurn)
       \/ DetectFrameInterval
       \/ DetectFrameTest
       \/ DetectFramePut
       \/ DetectFrameReturn
    /\ frame_counter' <= MaxFrameCounter
    /\ UNCHANGED now

WorkerInferThreads ==
    \E w \in Workers, outcome \in ThreadOutcomes : WorkerInfer(w, outcome)

\* The detector under all its public operations: detect_frame, cleanup and
\* start_processing_thread, which starts a thread on the loop whether or
\* not one is running, with up to MaxWorkers threads and the clock.
NextThreads ==
    /\ \/ DetectFrameInTurn
       \/ \E w \in Workers : WorkerStatement(w) \/ WorkerMiss(w) \/ WorkerExit(w)
       \/ WorkerInferThreads
       \/ StartProcessingThread
       \/ Cleanup
       \/ AdvanceTimeDet
    /\ UNCHANGED <<arbVars, scanVars, cfgVars, txVars, lockVars>>

SpecThreads == InitDet /\ [][NextThreads]_vars

\* The session with one camera frame and an inference that raises or
\* returns no box, for as many frames as the escalation takes.
EscalationOutcomes ==
    {outcome \in InferenceOutcomes :
        outcome.names = <<>> /\ ~outcome.plot_none /\ ~outcome.box_error}

DetectFrameEsc ==
    /\ \/ DetectFrame(1)
       \/ DetectFrameInterval
       \/ DetectFrameTest
       \/ DetectFramePut
       \/ DetectFrameReturn
    /\ frame_counter' <= MaxFrameCounterEsc
    /\ UNCHANGED now

WorkerInferEsc ==
    \E w \in Workers, outcome \in EscalationOutcomes : WorkerInfer(w, outcome)

NextEsc ==
    /\ \/ DetectFrameEsc
       \/ \E w \in Workers : WorkerStatement(w) \/ WorkerExit(w)
       \/ WorkerInferEsc
       \/ Cleanup
       \/ AdvanceTimeDet
    /\ UNCHANGED <<arbVars, scanVars, cfgVars, txVars, lockVars>>

SpecEsc == InitDet /\ [][NextEsc]_vars

\* The same session with a worker thread that is scheduled and an
\* inference that returns or raises: a worker that can execute its next
\* statement, or finish its inference, eventually does.
WorkerRuns ==
    /\ \E w \in Workers : WorkerStatement(w)
    /\ UNCHANGED <<arbVars, scanVars, cfgVars, txVars, lockVars>>

WorkerInfers ==
    WorkerInferEsc /\ UNCHANGED <<arbVars, scanVars, cfgVars, txVars, lockVars>>

SpecEscFair ==
    /\ SpecEsc
    /\ WF_vars(WorkerRuns)
    /\ WF_vars(WorkerInfers)

\* The transmitter alone, from its constructor (transmitter.py:8-13).
InitTx ==
    /\ now = Epoch
    /\ InitSessionIdle
    /\ InitDetector
    /\ InitMonitor

\* The calls of the owner of the transmitter, statement by statement.
\* Only send takes a command.
CallBeginStep ==
    \E op \in OwnerOps :
        \E command \in IF op = "send" THEN Commands ELSE {CMD_CLEAR} :
            CallBegin(op, command)

\* The statements of a call outside the branch of stop_obstruction_pulse
\* that stops a pulse.
CallStep ==
    \/ StopTest
    \/ DisconnectTest
    \/ CallSend
    \/ \E accepted \in BOOLEAN : CallWrite(accepted)
    \/ CallExcept
    \/ DisconnectClose
    \/ DisconnectFinally

\* transmitter.py:114-116: the branch of stop_obstruction_pulse taken
\* while a pulse is on.
StopPulseStep ==
    \/ StopUnset
    \/ StopSet
    \/ StopSend
    \/ \E accepted \in BOOLEAN : StopWrite(accepted)
    \/ StopExcept

\* The transmitter from its constructor, its owner and the connect
\* thread.  No pulse is started: obstruction_pulsing stays false.
NextTx ==
    /\ \/ (CallBeginStep \/ CallStep) /\ UNCHANGED connecting
       \/ (ConnectBegin \/ ConnectThread) /\ UNCHANGED txVars
    /\ UNCHANGED <<now, root, running, bluetooth_connected, perimeter_enabled,
                   last_perimeter_check, obstruction_alert_active,
                   obstruction_start_time, obstruction_signal_sent,
                   last_drowning_state, cyc, detVars, scanVars, cfgVars,
                   lockVars>>

SpecTx == InitTx /\ [][NextTx]_vars

\* The transmitter after connect() has returned True (transmitter.py:24-41).
InitPulse ==
    /\ now = Epoch
    /\ InitDetector
    /\ InitMonitor
    /\ root = "none"
    /\ connecting = "idle"
    /\ running = FALSE
    /\ bluetooth_connected = FALSE
    /\ perimeter_enabled = FALSE
    /\ last_perimeter_check = 0
    /\ obstruction_alert_active = FALSE
    /\ obstruction_start_time = 0
    /\ obstruction_signal_sent = FALSE
    /\ last_drowning_state = FALSE
    /\ tx = [NewTransmitter EXCEPT !.ser = TRUE, !.is_open = TRUE,
                                   !.connected = TRUE]
    /\ sink = <<>>
    /\ sent = NoSend
    /\ pulse_threads = [t \in PulseThreads |-> "unborn"]
    /\ commander = Idle
    /\ last_writer = "none"
    /\ cyc = NoCycle

PulseCallBeginStep ==
    \E op \in AlertOps \cup {"disconnect", "stop_obstruction_pulse"} :
        CallBegin(op, CMD_CLEAR)

PulseStartStep ==
    \/ PulseStartBegin
    \/ PulseStartSet
    \/ PulseStartClear
    \/ PulseStartThread

PulseStep ==
    \E t \in PulseThreads :
        \/ PulseTest(t)
        \/ PulseOn(t)
        \/ PulseCheck(t)
        \/ PulseOff(t)
        \/ \E accepted \in BOOLEAN : PulseWrite(t, accepted)
        \/ PulseExcept(t)

\* The connected transmitter, its owner and the pulse threads.
NextPulse ==
    /\ \/ PulseCallBeginStep
       \/ CallStep
       \/ StopPulseStep
       \/ PulseStartStep
       \/ PulseStep
    /\ UNCHANGED <<now, root, connecting, running, bluetooth_connected, perimeter_enabled,
                   last_perimeter_check, obstruction_alert_active,
                   obstruction_start_time, obstruction_signal_sent,
                   last_drowning_state, cyc, detVars, scanVars, cfgVars, lockVars>>

SpecPulse == InitPulse /\ [][NextPulse]_vars

InitScan ==
    /\ now = Epoch
    /\ InitSessionIdle
    /\ InitDetector
    /\ InitPerimeter

\* Intervals given to start_continuous_monitoring: the default and one
\* longer than the timeout of the join.
StartIntervals == {default_check_interval, 30}

StartStep ==
    \E with_callback \in BOOLEAN, interval \in StartIntervals :
        StartBegin(with_callback, interval)

SetObstructionCallbackStep ==
    \E callback \in BOOLEAN : SetObstructionCallback(callback)

StopStep == StopBegin("stop_continuous_monitoring", 0, DarkImage, NoShape)

\* The statements of _check_obstruction_internal on a reference of the
\* nominal resolution.
LoopCheckStatement(t) ==
    \/ LoopTestReference(t)
    \/ LoopTestMask(t)
    \/ LoopShape(t)
    \/ LoopAbsDiff(t)
    \/ LoopThreshold(t)
    \/ LoopMask(t)
    \/ LoopArea(t)
    \/ LoopContours(t)
    \/ LoopDecide(t)

\* The statements of monitoring_loop around the check, with a callback
\* that does not call back into the monitor.
LoopStatement(t) ==
    \/ LoopTest(t)
    \/ LoopTestFlag(t)
    \/ LoopNoFrame(t)
    \/ \E frame \in ScanFrames : LoopFetch(t, frame)
    \/ LoopAcquire(t)
    \/ LoopPctBody(t)
    \/ LoopFlagBody(t)
    \/ LoopCallbackTest(t)
    \/ LoopCallbackCall(t)
    \/ LoopCallbackReturn(t)
    \/ LoopAssign(t)
    \/ LoopNap(t)
    \/ LoopWake(t)

\* The statements of start_continuous_monitoring after its tests.
StartStatement ==
    \/ StartInterval
    \/ StartActive
    \/ StartClear
    \/ StartThread

\* The owner starts and stops the scanning and sets the callback; the
\* scanning threads run.
NextScan ==
    \/ StartStep
    \/ StartStatement
    \/ SetObstructionCallbackStep
    \/ StopStep
    \/ StopFlag
    \/ StopJoin
    \/ OwnerAcquire
    \/ StopBody
    \/ \E t \in Threads : LoopStatement(t) \/ LoopCheckStatement(t)

SpecScan == InitScan /\ [][NextScan]_vars

\* The engine as its constructor leaves it.
InitCfg ==
    /\ now = Epoch
    /\ InitSessionIdle
    /\ InitDetector
    /\ InitMonitor

\* Images of the frames given to the check.
ConfigureImages == {DarkImage, BrightImage}

\* Numbers of vertices given to the set_* operations: too few, enough.
VertexCounts == {2, 3, RectangleCorners}

\* reset, or a configure operation with its vertices and a dark frame.
ConfigureStep ==
    \E op \in ConfigureOps \cup {"reset"} :
        \E n \in ConfigureVertices(op) \cap ({0} \cup VertexCounts),
           shape \in Shapes :
            StopBegin(op, n, DarkImage, shape)

\* The statements of reset inside a configure operation.
ResetStatement ==
    \/ ResetReference
    \/ ResetMask
    \/ ResetState

\* The interactive drawing between reset and _finalize_perimeter.
DrawStatement ==
    \/ DrawClick
    \/ DrawEscape
    \/ DrawEnter

FinalizeStep == \E shape \in Shapes : FinalizePerimeter(DarkImage, shape)

\* The statements of finalize_perimeter and _finalize_perimeter.
FinalizeStatement ==
    \/ FinalizeMask
    \/ \E covered \in {{}, Pixels} : FinalizeFill(covered)
    \/ FinalizeReference
    \/ FinalizeDone

UpdateStep ==
    \E op \in {"update_background", "update_reference_frame"} :
        \E shape \in Shapes : UpdateBackground(op, BrightImage, shape)

CheckStep ==
    \E image \in ConfigureImages : CheckObstruction(image, 2000, FALSE)

StartDefaultStep == StartBegin(FALSE, default_check_interval)

\* The owner starts the scanning once.
StartOnceStep == monitoring_thread = 0 /\ StartDefaultStep

\* The statements of the scanning loop on any reference, without a callback.
LoopQuietStatement(t) ==
    \/ LoopTest(t)
    \/ LoopTestFlag(t)
    \/ LoopNoFrame(t)
    \/ LoopFetch(t, [image |-> BrightImage, contour |-> 2000])
    \/ LoopCheckStatement(t)
    \/ LoopResizeWidth(t)
    \/ LoopResizeHeight(t)
    \/ LoopAcquire(t)
    \/ LoopPctBody(t)
    \/ LoopFlagBody(t)
    \/ LoopCallbackTest(t)
    \/ LoopAssign(t)
    \/ LoopNap(t)
    \/ LoopWake(t)

\* The owner configures, refreshes, checks, starts, stops and resets in any
\* order, while the scanning threads it has started run.
NextCfg ==
    \/ ConfigureStep
    \/ StopStep
    \/ StopFlag
    \/ StopJoin
    \/ OwnerAcquire
    \/ StopBody
    \/ ResetStatement
    \/ SetPoints
    \/ DrawStatement
    \/ FinalizeStep
    \/ FinalizeStatement
    \/ UpdateStep
    \/ UpdateBody
    \/ CheckStep
    \/ StartOnceStep
    \/ StartStatement
    \/ \E t \in Threads : LoopQuietStatement(t)

SpecCfg == InitCfg /\ [][NextCfg]_vars

\* The image whose first k pixels are bright.
Lit(k) == [p \in Pixels |-> IF p <= k THEN 100 ELSE 0]

\* Images of the frames given to the check: the first k pixels bright, for
\* every k, and the dim image.
CheckImages == {Lit(k) : k \in 0..NumPixels} \cup {DimImage}

InitCheck == InitScan

CheckAgainStep ==
    \E image \in CheckImages, contour \in ContourAreas,
       remember \in BOOLEAN :
        CheckObstruction(image, contour, remember)

SetThresholdStep == \E threshold \in ThresholdInputs : SetThreshold(threshold)

SetDetectionParametersStep ==
    \E parameters \in {SetterDefaults, DefaultParameters} :
        SetDetectionParameters(parameters)

UpdateNominalStep ==
    \E image \in {DarkImage, DimImage} :
        UpdateBackground("update_background", image, NominalShape)

\* The owner checks frames and, between the checks, sets the thresholds
\* and refreshes the reference.
NextCheck ==
    \/ CheckAgainStep
    \/ SetThresholdStep
    \/ SetDetectionParametersStep
    \/ SetMinContourArea
    \/ SetObstructionThreshold
    \/ UpdateNominalStep
    \/ OwnerAcquire
    \/ UpdateBody

SpecCheck == InitCheck /\ [][NextCheck]_vars

\* Frames given to the check next to a running scan: nothing changed, one
\* pixel, every pixel.
ProbeImages == {DarkImage, Lit(1), BrightImage}

ProbeStep ==
    \E image \in ProbeImages, remember \in BOOLEAN :
        CheckObstruction(image, 2000, remember)

UpdateProbeStep ==
    \E image \in ConfigureImages :
        UpdateBackground("update_background", image, NominalShape)

SetCheckIntervalStep ==
    \E interval \in CheckIntervals : SetCheckInterval(interval)

StartProbeStep == StartBegin(TRUE, default_check_interval)

SetThresholdProbeStep == \E threshold \in {4, 80} : SetThreshold(threshold)

\* The owner checks frames, refreshes the reference and sets the threshold
\* and the interval while the scanning loop it has started runs.
NextProbe ==
    \/ ProbeStep
    \/ UpdateProbeStep
    \/ OwnerAcquire
    \/ UpdateBody
    \/ SetThresholdProbeStep
    \/ SetCheckIntervalStep
    \/ StartProbeStep
    \/ StartStatement
    \/ \E t \in Threads : LoopStatement(t) \/ LoopCheckStatement(t)

SpecProbe == InitScan /\ [][NextProbe]_vars

\* The owner starts the scanning once, with a callback.
StartWithCallbackStep ==
    monitoring_thread = 0 /\ StartBegin(TRUE, default_check_interval)

ReadStep ==
    \E op \in {"get_status", "draw_overlay"}, visible \in BOOLEAN :
        ReadBegin(op, visible)

ResetStep == StopBegin("reset", 0, DarkImage, NoShape)

UpdateBrightStep ==
    UpdateBackground("update_background", BrightImage, NominalShape)

\* The statements of a callback that calls get_status.
LoopStatusStatement(t) ==
    \/ LoopCallbackStatus(t)
    \/ LoopStatusBody(t)

\* The owner starts the scanning with a callback that calls get_status,
\* reads the status, refreshes the reference, stops and resets, while the
\* scanning threads run.
NextLock ==
    \/ StartWithCallbackStep
    \/ StartStatement
    \/ ReadStep
    \/ ReadBody
    \/ UpdateBrightStep
    \/ UpdateBody
    \/ StopStep
    \/ ResetStep
    \/ StopFlag
    \/ StopJoin
    \/ OwnerAcquire
    \/ StopBody
    \/ ResetStatement
    \/ \E t \in Threads :
           LoopStatement(t) \/ LoopCheckStatement(t) \/ LoopStatusStatement(t)

SpecLock == InitScan /\ [][NextLock]_vars

\* The owner inside a with self.lock block goes on to its end.
OwnerLeaves ==
    \/ StopBody
    \/ ResetStatement
    \/ ReadBody
    \/ UpdateBody

\* A scanning thread inside a with self.lock block goes on to its end.
LoopLeaves(t) ==
    \/ LoopPctBody(t)
    \/ LoopFlagBody(t)
    \/ LoopStatusBody(t)

\* A thread that holds the lock is not suspended for ever.
SpecLockFair ==
    /\ SpecLock
    /\ WF_vars(OwnerLeaves)
    /\ \A t \in Threads : WF_vars(LoopLeaves(t))

\* ------------------------------------------------------------------------
\* Alert arbitration: properties
\* ------------------------------------------------------------------------

RECURSIVE Count(_, _)
Count(x, seq) ==
    IF seq = <<>> THEN 0
    ELSE (IF Head(seq) = x THEN 1 ELSE 0) + Count(x, Tail(seq))

Elems(seq) == {seq[i] : i \in 1..Len(seq)}

\* An arbitration cycle: a monitor_loop pass of a session whose sink was
\* connected when the session started.
ArbitrationCycle == cyc.kind = "cycle" /\ bluetooth_connected

\* The step is such a cycle: its detect_frame returns.
ArbitrationCycleStep ==
    cyc'.kind = "cycle" /\ call'.bit # call.bit /\ bluetooth_connected

\* The perimeter check of the cycle returned obstructed.
PositiveObstructionRead(c) == c.sampled /\ c.obstructed

\* The perimeter check of the cycle returned not obstructed.
NegativeObstructionRead(c) == c.sampled /\ ~c.obstructed

\* C1: in an arbitration cycle whose hazardFlag is true and whose
\* obstruction read, the obstructed result of the perimeter check, is true,
\* whatever the state before the cycle, no DROWNING is sent: the cycle's
\* sends are OBSTRUCTION and clear only.
C1_ObstructionPreemptsDrowning ==
    (ArbitrationCycle /\ cyc.detected /\ PositiveObstructionRead(cyc))
        => /\ CMD_DROWNING \notin Elems(cyc.calls)
           /\ CMD_DROWNING \notin Elems(cyc.wire)
           /\ Elems(cyc.calls) \subseteq {CMD_OBSTRUCTION, CMD_CLEAR}

\* C2: a cycle that starts OBSTRUCTION_ACTIVE leaves the state, with exactly
\* one clear, iff the perimeter was read negative in it and at least
\* obstruction_min_duration has elapsed since the onset; every other such
\* cycle, in particular every cycle of the first 6 seconds whatever its
\* read, stays OBSTRUCTION_ACTIVE, sends no clear and keeps the onset time.
C2_MinimumObstructionDuration ==
    [][(ArbitrationCycleStep /\ obstruction_alert_active)
        => LET elapsed == now' - obstruction_start_time
           IN IF NegativeObstructionRead(cyc')
                 /\ elapsed >= Seconds(obstruction_min_duration)
              THEN /\ ~obstruction_alert_active'
                   /\ Count(CMD_CLEAR, cyc'.calls) = 1
              ELSE /\ obstruction_alert_active'
                   /\ Count(CMD_CLEAR, cyc'.calls) = 0
                   /\ obstruction_start_time' = obstruction_start_time]_vars

\* C3: OBSTRUCTION is sent once in the cycle that enters OBSTRUCTION_ACTIVE
\* and in no other cycle, positive or negative, of the episode.
C3_ObstructionEdgeTriggered ==
    [][ArbitrationCycleStep
        => Count(CMD_OBSTRUCTION, cyc'.calls) =
              IF ~obstruction_alert_active /\ obstruction_alert_active'
              THEN 1 ELSE 0]_vars

\* A cycle that reads the perimeter positive again, in an episode in which
\* a check had returned not obstructed during the hold, has sent nothing.
C3_Witness ==
    /\ ArbitrationCycle /\ cyc.was_active /\ obstruction_alert_active
    /\ PositiveObstructionRead(cyc) /\ cyc.current_obstruction
    /\ cyc.reads = "mixed"
    /\ obstruction_signal_sent
    /\ cyc.calls = <<>>

\* C4: when the obstruction edge preempts an active drowning alert, the
\* clear is sent before the OBSTRUCTION command of that cycle and
\* DROWNING_ACTIVE is dropped.
C4_ClearBeforeObstruction ==
    (ArbitrationCycle /\ cyc.current_obstruction
        /\ ~cyc.was_active /\ cyc.was_drowning)
        => /\ cyc.calls = <<CMD_CLEAR, CMD_OBSTRUCTION>>
           /\ ~last_drowning_state

\* The sends of the drowning rule in a cycle: the cycle's sends without the
\* clear of an obstruction release.
DrowningRuleCalls(c) == IF c.was_active THEN Tail(c.calls) ELSE c.calls

\* C5: in a cycle that is not OBSTRUCTION_ACTIVE when the drowning rule is
\* evaluated, the rule sends DROWNING iff hazardFlag is true and
\* DROWNING_ACTIVE was false, clear iff hazardFlag is false and
\* DROWNING_ACTIVE was true, and nothing otherwise, and DROWNING_ACTIVE
\* becomes hazardFlag; DROWNING_ACTIVE falls only in a cycle that sends a
\* clear, so two DROWNING sends are separated by a clear.
C5_DrowningEdges ==
    [][ArbitrationCycleStep
        => /\ ~obstruction_alert_active' =>
                /\ DrowningRuleCalls(cyc') =
                      IF cyc'.detected /\ ~last_drowning_state
                      THEN <<CMD_DROWNING>>
                      ELSE IF ~cyc'.detected /\ last_drowning_state
                      THEN <<CMD_CLEAR>>
                      ELSE <<>>
                /\ last_drowning_state' = cyc'.detected
           /\ CMD_DROWNING \in Elems(cyc'.calls)
                => ~last_drowning_state /\ last_drowning_state'
           /\ (last_drowning_state /\ ~last_drowning_state')
                => CMD_CLEAR \in Elems(cyc'.calls)]_vars

\* The cycle that releases an obstruction has hazardFlag true: the drowning
\* rule runs after the clear of the release and sends DROWNING.
C5_Witness ==
    /\ ArbitrationCycle /\ cyc.was_active /\ ~obstruction_alert_active
    /\ cyc.detected /\ ~cyc.was_drowning /\ last_drowning_state
    /\ cyc.calls = <<CMD_CLEAR, CMD_DROWNING>>
    /\ sink = <<CMD_DROWNING>>

\* C6: a stopped session has sent the clear as its last signal, whatever
\* the arbitration state at stop and whatever the session is, and the sink
\* has received it whenever the channel is connected.
C6_FinalClear ==
    root = "destroyed"
        => /\ cyc.kind = "stop"
           /\ cyc.calls = <<CMD_CLEAR>>
           /\ tx.connected => (cyc.wire = <<CMD_CLEAR>> /\ sink = <<CMD_CLEAR>>)

\* ------------------------------------------------------------------------
\* Detection pipeline: properties
\* ------------------------------------------------------------------------

\* A complete DetectionResult: an image, a boolean and a list, none absent.
CompleteResult(r) ==
    /\ r.annotated # NullImage
    /\ r.detected_flag \in BOOLEAN
    /\ r.detections \in Seq(NameLists \cup {NameSwimming, NameDrowning,
                                            NameDrownPrefix})

\* C7: what detect_frame returns is a complete result on every path of
\* the call (no frame, too soon, skipped, slot full, queued), before the
\* first inference and after any inference, and so is the stored result.
C7_ResultNeverNull ==
    /\ CompleteResult(call.result)
    /\ CompleteResult(last_valid_result)

\* detect_frame(None) has returned the result of an inference whose plot()
\* gave None.
C7_Witness ==
    /\ call.path = "no frame"
    /\ call.result.annotated.kind = "copy"
    /\ call.result.detections # <<>>

\* C8: a result returned at a time inside the hold window of the last
\* positive inference has hazardFlag true.
C8_HoldAfterPositive == call.in_hold => call.result.detected_flag

\* C9: the slot holds at most one frame; a call that finds a frame in the
\* slot goes to its return, drops its frame and leaves the slot as it is;
\* no statement of a call waits: the test, the put and the return can
\* always proceed; a step of a worker takes at most one frame out of the
\* slot.
C9_DropNotBlock ==
    /\ [](Len(detection_queue) <= detection_queue_maxsize)
    /\ [](/\ submitter.pc = "interval" => ENABLED DetectFrameInterval
          /\ submitter.pc = "test" => ENABLED DetectFrameTest
          /\ submitter.pc = "put" => ENABLED DetectFramePut
          /\ submitter.pc = "return" => ENABLED DetectFrameReturn)
    /\ [][(submitter.pc = "test" /\ submitter' # submitter
              /\ ~QueueEmpty(detection_queue))
            => /\ detection_queue' = detection_queue
               /\ submitter'.pc = "return"
               /\ submitter'.path = "dropped"]_vars
    /\ [][worker' # worker
            => Len(detection_queue') >= Len(detection_queue) - 1]_vars

\* Frame 2 was dropped while frame 1 waits in the slot.
C9_Witness ==
    /\ call.path = "dropped"
    /\ call.frame = 2
    /\ detection_queue = <<1>>

\* ------------------------------------------------------------------------
\* Properties of the continuous scanning (SpecScan)
\* ------------------------------------------------------------------------

\* The last n raw reads of a history are the given ones.
EndsWith(history, suffix) ==
    /\ Len(history) >= Len(suffix)
    /\ \A i \in 1..Len(suffix) :
           history[Len(history) - Len(suffix) + i] = suffix[i]

\* Thread t has made a positive raw read and debounces it.
PositiveRead(t) ==
    /\ loops[t].pc = "pct_body"
    /\ loops'[t].consecutive_detections = loops[t].consecutive_detections + 1

\* Thread t writes the published flag.
Published(t) == loops[t].pc = "flag_body" /\ loops'[t].pc = "callback_test"

\* C10: the published obstruction flag becomes true only after 2
\* consecutive positive raw reads; a positive read with a negative read
\* before it (and after it) never makes the loop change the flag; and a
\* loop that has read 2 consecutive positives while the flag is false and
\* scanning is on always sets the flag to true.
C10_DebounceRisingEdge ==
    [][/\ (~obstruction_detected /\ obstruction_detected') =>
              \E t \in Threads :
                  Published(t) /\ EndsWith(loops[t].reads, <<TRUE, TRUE>>)
       /\ \A t \in Threads :
              Published(t) =>
                  /\ ~EndsWith(loops[t].reads, <<FALSE, TRUE>>)
                  /\ ~EndsWith(loops[t].reads, <<FALSE, TRUE, FALSE>>)
       /\ \A t \in Threads :
              (/\ PositiveRead(t)
               /\ EndsWith(loops'[t].reads, <<TRUE, TRUE>>)
               /\ ~obstruction_detected
               /\ monitoring_active /\ ~stop_flag) =>
                  /\ loops'[t].pc = "flag_lock"
                  /\ CurrentState(loops'[t].consecutive_detections)
       /\ \A t \in Threads :
              (Published(t) /\ EndsWith(loops[t].reads, <<TRUE, TRUE>>)) =>
                  obstruction_detected'
      ]_vars

\* C11: in continuous scanning the published obstruction flag, once true,
\* is written back to false by a loop only after 2 consecutive negative raw
\* reads; a single negative read between positive reads does not flip it.
C11_DebounceFallingEdge ==
    [][\A t \in Threads :
           (Published(t) /\ obstruction_detected /\ ~obstruction_detected') =>
               EndsWith(loops[t].reads, <<FALSE, FALSE>>)
      ]_vars

\* Thread t executes the call of the callback (perimeter.py:585).
Notified(t) == loops[t].pc = "call" /\ loops'[t].pc # "call"

\* C12: with a callback registered, every change of the published
\* obstruction flag is made at a place that invokes the callback once with
\* the new state, the changes made by the scanning loop and the reset made
\* by stop_continuous_monitoring included; and the callback is invoked
\* only for a write that changed the flag.
C12_CallbackPerFlip ==
    [][/\ (obstruction_callback /\ obstruction_detected' # obstruction_detected) =>
              \E t \in Threads : Published(t)
       /\ \A t \in Threads :
              (Notified(t) /\ obstruction_callback) =>
                  /\ notified'.bit # notified.bit
                  /\ notified'.state =
                         CurrentState(loops[t].consecutive_detections)
       /\ notified' # notified => \E t \in Threads : Notified(t)
       /\ \A t \in Threads :
              (Published(t) /\ obstruction_callback) =>
                  obstruction_detected' # obstruction_detected
      ]_vars

\* stop_continuous_monitoring has returned, or scanning was never started.
ScanningStopped == caller = Resting /\ ~monitoring_active

\* C13: once stop_continuous_monitoring has returned, and until scanning
\* is started again, no loop makes a check, a state write or a callback (a
\* loop can only end), and the visible state is obstructed = false,
\* percentage = 0; this under every interleaving, a join that times out
\* included.
C13_StopHaltsAndResets ==
    [][(ScanningStopped /\ ~monitoring_active') =>
           /\ \A t \in Threads :
                  \/ loops'[t] = Ended
                  \/ /\ loops'[t].reads = loops[t].reads
                     /\ loops'[t].consecutive_detections =
                            loops[t].consecutive_detections
                     /\ ~(loops[t].pc = "fetch"
                            /\ loops'[t].pc = "test_reference")
                     /\ ~Published(t)
           /\ notified' = notified
           /\ obstruction_detected = FALSE /\ obstruction_detected' = FALSE
           /\ PctEq(current_obstruction_pct, ZeroPercentage)
           /\ PctEq(current_obstruction_pct', ZeroPercentage)
      ]_vars

\* ------------------------------------------------------------------------
\* Properties of the perimeter engine's public operations (SpecCfg)
\* ------------------------------------------------------------------------

\* The engine is configured: flag, mask and reference are all there.
Configured == drawing_complete /\ mask.present /\ reference_frame.present

\* Nothing of a configuration is there.
NotConfigured == ~drawing_complete /\ ~mask.present /\ ~reference_frame.present

\* The last call of the owner has returned.
HasReturned == api.ret # Pending

\* C14: after set_perimeter_points, set_polygonal_perimeter or
\* finalize_perimeter decided on fewer than 3 vertices, the call has
\* returned failure and the engine is not configured (no mask, no
\* reference); after set_polygonal_perimeter or finalize_perimeter decided
\* on 3 or more vertices with a reference frame, the call has returned
\* success and the engine is configured; this whether or not a scanning
\* loop runs.
C14_ConfigurationRejection ==
    /\ (/\ api.op \in {"set_perimeter_points", "set_polygonal_perimeter",
                       "finalize_perimeter"}
        /\ HasReturned
        /\ api.args.vertices < 3) =>
           api.ret = RetFalse /\ NotConfigured
    /\ (/\ api.op \in {"set_polygonal_perimeter", "finalize_perimeter"}
        /\ HasReturned
        /\ api.args.vertices >= 3) =>
           api.ret = RetTrue /\ Configured

\* A polygon of 2 vertices was given to an engine that was configured and
\* scanning, and rejected; the loop is still alive.
C14_Witness ==
    /\ api.op = "set_polygonal_perimeter"
    /\ api.args.vertices = 2
    /\ api.ret = RetFalse
    /\ \E t \in Threads : loops[t].pc \notin {"unborn", "done"}

\* A call of the owner returns.
CallReturns(op) == api'.bit # api.bit /\ api'.op = op

\* C15: while the engine is not configured (initially, after reset, after
\* a rejected configuration, with vertices set but not finalized), a call
\* of check_obstruction returns (obstructed = false, percentage = 0), and
\* a call of start_continuous_monitoring returns false, starts no loop and
\* leaves the scanning flags and the callback as they are.
C15_NotConfigured ==
    [][~drawing_complete =>
           /\ CallReturns("check_obstruction") =>
                  /\ api'.ret = "tuple"
                  /\ api'.result.obstructed = FALSE
                  /\ PctEq(api'.result.percentage, ZeroPercentage)
           /\ CallReturns("start_continuous_monitoring") =>
                  /\ api'.ret = RetFalse
                  /\ UNCHANGED <<loops, monitoring_active, monitoring_thread,
                                 stop_flag, obstruction_callback>>
      ]_vars

\* A check was made with vertices set and no configuration finalized, next
\* to a loop that a reset has left alive.
C15_Witness ==
    /\ api.op = "check_obstruction"
    /\ ~drawing_complete
    /\ Len(perimeter_points) >= 3
    /\ \E t \in Threads : loops[t].pc \notin {"unborn", "done"}

UpdateOps == {"update_background", "update_reference_frame"}

\* The step is a statement of update_background or of its alias.
BackgroundStatement ==
    \/ api' # api /\ api'.op \in UpdateOps
    \/ caller' # caller /\ caller.op \in UpdateOps

\* C16: update_background / update_reference_frame replaces the stored
\* reference by the given frame and returns true exactly when the engine
\* is configured; when it is not configured it returns false and leaves
\* the reference as it is; in both cases no statement of the call changes
\* the vertices, the mask or the obstruction state, and none but the last
\* of a call on a configured engine changes the reference.
C16_BackgroundRefresh ==
    [][/\ BackgroundStatement =>
              /\ perimeter_points' = perimeter_points
              /\ mask' = mask
              /\ drawing_complete' = drawing_complete
              /\ obstruction_detected' = obstruction_detected
              /\ current_obstruction_pct' = current_obstruction_pct
              /\ api'.bit = api.bit => reference_frame' = reference_frame
       /\ \A op \in UpdateOps :
              CallReturns(op) =>
                  IF drawing_complete
                  THEN /\ api'.ret = RetTrue
                       /\ reference_frame' =
                              Gray(api'.args.image, api'.args.shape)
                  ELSE /\ api'.ret = RetFalse
                       /\ reference_frame' = reference_frame
      ]_vars

\* update_reference_frame has replaced the reference of a configured engine
\* by the bright image while a scanning loop runs.
C16_Witness ==
    /\ api.op = "update_reference_frame"
    /\ api.ret = RetTrue
    /\ reference_frame.image = BrightImage
    /\ mask.pixels # {}
    /\ monitoring_active
    /\ \E t \in Threads : loops[t].pc \notin {"unborn", "done"}

\* The changed pixels of a frame, against the stored reference and inside
\* the stored mask.
ChangedOf(image) ==
    {p \in mask.pixels :
        Abs(image[p] - reference_frame.image[p])
            > detection_parameters.difference_threshold}

\* The changed pixels of the frame of the last call.
ChangedOfCall == ChangedOf(api.args.image)

\* C17: for a configured engine with a non-empty mask, check_obstruction
\* returns percentage = changedPixelsInMask / maskArea * 100, which lies
\* in [0, 100], and obstructed = ((a changed component above
\* minContourArea) and percentage > 5) or percentage >= the obstruction
\* threshold; so a percentage <= 5 is never obstructed while the threshold
\* is above 5, and one at the threshold or above always is.
C17_SingleShotDecision ==
    (api.op = "check_obstruction" /\ Configured /\ mask.pixels # {}) =>
        LET changed == CountNonZero(ChangedOfCall)
            area == CountNonZero(mask.pixels)
            pct == api.result.percentage
            threshold == detection_parameters.obstruction_threshold
            significant ==
                /\ api.args.contour > detection_parameters.min_contour_area
                /\ changed > 0
        IN /\ pct.num * area = changed * 100 * pct.den
           /\ pct.den > 0
           /\ 0 <= pct.num /\ pct.num <= 100 * pct.den
           /\ api.result.obstructed <=>
                  \/ significant /\ pct.num > 5 * pct.den
                  \/ pct.num >= threshold * pct.den
           /\ (pct.num <= 5 * pct.den /\ threshold > 5)
                  => ~api.result.obstructed
           /\ pct.num >= threshold * pct.den => api.result.obstructed

\* The step is a call of check_obstruction.
CheckCalled == CallReturns("check_obstruction")

\* C18: two check_obstruction calls on the same configuration (mask,
\* reference, thresholds), whatever was called between them that left the
\* configuration alone, for frames whose changed-pixel sets satisfy
\* M1 subset of M2, report percentage(M2) >= percentage(M1).
C18_ObstructionMonotonicity ==
    [][(CheckCalled /\ earlier.valid) =>
           LET m1 == ChangedOf(earlier.args.image)
               m2 == ChangedOf(api'.args.image)
           IN /\ m1 \subseteq m2 =>
                     PctLE(earlier.result.percentage, api'.result.percentage)
              /\ m2 \subseteq m1 =>
                     PctLE(api'.result.percentage, earlier.result.percentage)
      ]_vars

\* Two checks on one configuration, set up after construction with another
\* difference threshold: the second frame has more changed pixels and a
\* higher percentage.
C18_Witness ==
    /\ api.op = "check_obstruction"
    /\ earlier.valid
    /\ Configured
    /\ detection_parameters.difference_threshold # difference_threshold
    /\ ChangedOf(earlier.args.image) # {}
    /\ ChangedOf(earlier.args.image) \subseteq ChangedOfCall
    /\ ChangedOf(earlier.args.image) # ChangedOfCall
    /\ PctEq(earlier.result.percentage,
             Percentage(CountNonZero(ChangedOf(earlier.args.image)),
                        CountNonZero(mask.pixels)))
    /\ ~PctLE(api.result.percentage, earlier.result.percentage)

\* ------------------------------------------------------------------------
\* Properties of the detection pipeline: failures of the inference
\* ------------------------------------------------------------------------

\* The last inference of the worker raised.
LastInferenceRaised == inference.failures > 0

\* The inference of a worker ends in this step.
InferenceStep ==
    \E w \in Workers : worker[w].pc = "infer" /\ worker'[w].pc # "infer"

\* Worker w stores the result of an inference in this step: the error
\* result when the inference raised (detect.py:157), its result otherwise
\* (detect.py:147).
Stores(w) ==
    \/ worker[w].pc = "infer" /\ worker'[w].pc = "poll"
    \/ worker[w].pc = "store" /\ worker'[w].pc = "stamp"

StoresResult == \E w \in Workers : Stores(w)

\* C19: when the inference raises for a frame the worker loop does not
\* terminate (it ends only once processing is false), the stored result
\* has hazardFlag = false and empty detections until the next inference,
\* and the worker is back at the test of the slot, where it takes the
\* frames submitted afterwards.
C19_InferenceFailureRecovered ==
    /\ [](LastInferenceRaised =>
             /\ ~last_valid_result.detected_flag
             /\ last_valid_result.detections = <<>>)
    /\ [][\A w \in Workers :
             (Alive(w) /\ worker'[w].pc = "done") => ~processing]_vars
    /\ [](\A w \in Workers :
             /\ (LastInferenceRaised /\ processing /\ worker[w].pc = "poll")
                    => ENABLED WorkerPoll(w)
             /\ (LastInferenceRaised /\ worker[w].pc = "slot")
                    => ENABLED WorkerSlot(w)
             /\ (LastInferenceRaised /\ worker[w].pc = "get"
                    /\ ~QueueEmpty(detection_queue)) => ENABLED WorkerTake(w))

\* An inference raised, and the worker has processed the frame submitted
\* after it: the stored result is the plot of that frame.
C19_Witness ==
    /\ inference.after_failure
    /\ ~LastInferenceRaised
    /\ last_valid_result.annotated.kind = "plot"
    /\ worker[1].pc = "poll"
    /\ processing

\* C20: after max_detection_errors consecutive inference failures a
\* permanent no-op detector is substituted: the detect_frame call that
\* follows the fifth failure leaves the session with the fallback detector,
\* with the fallback detector the inference engine is not invoked, so that
\* no sixth inference in a row fails; and the substitution is made only
\* after max_detection_errors consecutive failures.
C20_FailureEscalation ==
    [][/\ (inference.failures >= max_detection_errors /\ call'.bit # call.bit)
            => using_fallback_detector'
       /\ using_fallback_detector => ~InferenceStep
       /\ inference'.failures <= max_detection_errors
       /\ (~using_fallback_detector /\ using_fallback_detector')
            => inference.failures >= max_detection_errors]_vars

SendObserved == sent.op \in SendOps

\* The send returned a boolean.
SendReturnsBoolean == SendObserved => sent.ret \in {RetTrue, RetFalse}

\* The send returned true iff its command was written, as the last write.
SendTrueIffWritten ==
    SendObserved =>
        (sent.ret = RetTrue <=>
            (sent.wire # <<>> /\ Last(sent.wire) = sent.command))

\* A send operation returns in this step.
SendReturns == sent'.bit # sent.bit /\ sent'.op \in SendOps

\* A send on a disconnected channel writes nothing; a send that found the
\* channel connected and did not return true has marked it disconnected.
\* Both are read at the return of the send, before the connect thread can
\* set the flag again.
SendDisconnectedWritesNothing ==
    SendReturns =>
        /\ ~sent'.was_connected => (sent'.wire = <<>> /\ ~tx'.connected)
        /\ (sent'.was_connected /\ sent'.ret # RetTrue) => ~tx'.connected

\* C22: every send operation of the transmitter returns a boolean, true
\* iff the command was written, false when the write fails or the channel
\* is not connected; a failed write marks the channel disconnected, and
\* while it is disconnected no command is written until connect succeeds.
C22_SendReportsBoolean ==
    /\ []SendReturnsBoolean
    /\ []SendTrueIffWritten
    /\ [][SendDisconnectedWritesNothing]_vars

\* ------------------------------------------------------------------------
\* Properties of the session stop
\* ------------------------------------------------------------------------

\* A worker takes a frame from the slot in this step.
TakesFrame ==
    \E w \in Workers : worker[w].pc = "get" /\ worker'[w].pc = "infer"

\* C23: stop_monitoring sets the stop flag of the detection worker
\* (processing false) and of the perimeter scanning loop (monitoring_active
\* false, stop_flag set when a loop was started); a worker that is back at
\* its poll point with the flag set takes no new frame.
C23_Cancellation ==
    [][/\ cyc'.kind = "stop" =>
            /\ ~processing'
            /\ ~monitoring_active'
       /\ ~processing => ~TakesFrame]_vars

\* ------------------------------------------------------------------------
\* Properties of the arbitration: the obstruction input and the hysteresis
\* ------------------------------------------------------------------------

\* The cycle leaves OBSTRUCTION_ACTIVE.
ObstructionReleased ==
    ArbitrationCycleStep /\ obstruction_alert_active /\ ~obstruction_alert_active'

\* C24: OBSTRUCTION_ACTIVE is left, and its clear sent, only in a cycle in
\* which the perimeter engine was sampled and the read was negative; a
\* cycle that did not sample the perimeter does not clear the obstruction.
C24_ReleaseOnlyWhenSampled ==
    [][/\ ObstructionReleased =>
            (cyc'.sampled /\ ~cyc'.current_obstruction)
       /\ (ArbitrationCycleStep /\ obstruction_alert_active /\ ~cyc'.sampled) =>
            (obstruction_alert_active' /\ CMD_CLEAR \notin Elems(cyc'.calls))]_vars

\* C25: in every cycle that samples the perimeter the obstruction input of
\* the arbitration is the obstructed result of check_obstruction, for any
\* percentage: a positive result makes the cycle obstruction-positive (the
\* machine is OBSTRUCTION_ACTIVE after it), a negative one negative.
C25_ObstructionInputIsEngineResult ==
    (cyc.kind = "cycle" /\ cyc.sampled) =>
        /\ cyc.current_obstruction = cyc.obstructed
        /\ (cyc.obstructed /\ bluetooth_connected) => obstruction_alert_active

\* C26: the onset time is written only by the cycle that enters
\* OBSTRUCTION_ACTIVE, as the time of that cycle, and no later cycle of the
\* episode changes it; until obstruction_min_duration after the onset every
\* cycle keeps the machine OBSTRUCTION_ACTIVE, whatever it reads, and from
\* then on the machine is released by the first cycle in which the
\* perimeter is read negative, and by no other.
C26_HysteresisFromOnset ==
    [][ArbitrationCycleStep =>
          /\ IF ~obstruction_alert_active /\ obstruction_alert_active'
             THEN obstruction_start_time' = now'
             ELSE obstruction_start_time' = obstruction_start_time
          /\ obstruction_alert_active =>
                IF now' - obstruction_start_time < Seconds(obstruction_min_duration)
                THEN obstruction_alert_active'
                ELSE obstruction_alert_active' = ~NegativeObstructionRead(cyc')]_vars

\* ------------------------------------------------------------------------
\* Properties of the detection pipeline: the sampling gate
\* ------------------------------------------------------------------------

\* The frame of a detect_frame call passes the interval test and the skip
\* test in this step.
GatePassed == submitter.pc = "interval" /\ submitter'.pc = "test"

\* A detect_frame call returns in this step.
DetectFrameReturns == call'.bit # call.bit

\* C27: detect_frame decides to place a frame in the slot only when the
\* minimum inter-processing interval 1/target_fps has elapsed since the
\* last completed inference and the count of the frames that passed that
\* test, this one included, is a multiple of frame_skip + 1; a frame enters
\* the slot only by such a call; every call returns the last known result,
\* and every call that did not place its frame leaves the slot unchanged.
C27_SamplingGate ==
    [][/\ GatePassed =>
            /\ (now - last_detection_time) * target_fps >= TicksPerSecond
            /\ frame_counter' = frame_counter + 1
            /\ frame_counter' % (frame_skip + 1) = 0
       /\ submitter'.pc = "put" =>
            /\ submitter.pc \in {"test", "put"}
            /\ QueueEmpty(detection_queue)
       /\ Len(detection_queue') > Len(detection_queue) =>
            /\ submitter.pc = "put"
            /\ submitter'.path = "queued"
            /\ detection_queue' = <<submitter.frame>>
       /\ (submitter' # submitter /\ submitter.pc # "put") =>
            detection_queue' = detection_queue
       /\ (submitter' # submitter /\ submitter'.path = "too soon") =>
            frame_counter' = frame_counter
       /\ DetectFrameReturns =>
            /\ call'.result = last_valid_result
            /\ call'.path \in {"no frame", "too soon", "skipped", "dropped",
                               "queued"}
            /\ call'.path = "no frame" => frame_counter' = frame_counter]_vars

\* A frame has been placed in the slot by a call made after an inference
\* completed, at the second multiple of the skip factor.
C27_Witness ==
    /\ call.path = "queued"
    /\ detection_queue = <<call.frame>>
    /\ last_detection_time >= Epoch
    /\ frame_counter = 2 * (frame_skip + 1)

\* ------------------------------------------------------------------------
\* Properties of the detection pipeline: the hold and the hand-off
\* ------------------------------------------------------------------------

\* C28: a detect_frame call that returns later than event_hold_seconds
\* after the last positive inference returns hazardFlag = false, whatever
\* the number of inferences completed since.
C28_HoldExpiresByWallClock ==
    (call.path # "none" /\ ~call.in_hold) => ~call.result.detected_flag

\* The stored result, the time of the last positive and the time of the
\* last inference are written in this step.
ResultReplaced ==
    \/ last_valid_result' # last_valid_result
    \/ last_event_time' # last_event_time
    \/ last_detection_time' # last_detection_time

\* C29: a frame accepted into the slot is eventually taken by the worker
\* while the detector runs, and the inference on it ends; the worker
\* takes the frame that is in the slot and empties the slot; the stored
\* result is replaced only by the worker finishing the inference on a frame
\* it took, once for that frame.
C29_FrameConsumedOnce ==
    /\ (~QueueEmpty(detection_queue)) ~> (QueueEmpty(detection_queue) \/ ~processing)
    /\ \A w \in Workers : (worker[w].pc = "infer") ~> (worker[w].pc = "poll")
    /\ [][/\ \A w \in Workers :
                 /\ (worker[w].pc = "get" /\ worker'[w].pc = "infer") =>
                        /\ detection_queue = <<worker'[w].frame>>
                        /\ QueueEmpty(detection_queue')
                        /\ ~ResultReplaced
                 /\ Stores(w) =>
                        last_valid_result'.annotated.of
                            \in {worker[w].frame, NoFrame}
                 /\ (worker[w].pc = "stamp" /\ worker'[w] # worker[w]) =>
                        worker'[w].pc = "poll"
          /\ ResultReplaced =>
               \E w \in Workers :
                   /\ worker[w].pc \in {"infer", "event", "store", "stamp"}
                   /\ worker'[w].pc # worker[w].pc
                   /\ worker[w].frame \in CameraFrames
          /\ last_valid_result' # last_valid_result => StoresResult
          /\ Len(detection_queue') < Len(detection_queue) => TakesFrame]_vars

\* The worker has taken a second frame from the slot and stored its result.
C29_Witness ==
    /\ QueueEmpty(detection_queue)
    /\ worker[1].pc = "poll"
    /\ frame_counter >= 2 * (frame_skip + 1)
    /\ last_valid_result.annotated.kind = "plot"
    /\ inference.after_failure

\* The three fields of a result belong together: the placeholder and the
\* error result carry no hazard and no detection; any other result is the
\* image of a camera frame with the detections of one inference, whose
\* flag is set when one of them is a drowning.
Coherent(r) ==
    IF r.annotated.kind \in {"INITIALIZING", "Detection Error"}
    THEN r \in {_create_default_result, ErrorResult}
    ELSE /\ r.annotated.kind \in {"plot", "copy"}
         /\ r.annotated.of \in CameraFrames
         /\ r.detections \in NameLists
         /\ DetectedFlag(r.detections) => r.detected_flag

\* C30: under every interleaving of the worker and the caller, the triple
\* a detect_frame call returns is the stored result as a whole, as one
\* inference (or the constructor) stored it, never a mix of two results;
\* the worker replaces the three fields in one step.
C30_AtomicReplacement ==
    [][/\ DetectFrameReturns =>
            /\ call'.result = last_valid_result
            /\ Coherent(call'.result)
       /\ StoresResult => Coherent(last_valid_result')
       /\ ~StoresResult => last_valid_result' = last_valid_result]_vars

\* The worker stored a positive result and later the error result, and a
\* call has returned the error result.
C30_Witness ==
    /\ call.path # "none"
    /\ call.result = ErrorResult
    /\ last_valid_result = ErrorResult
    /\ inference.failures = 1
    /\ last_event_time >= Epoch

\* ------------------------------------------------------------------------
\* Alert arbitration: exclusion, the sink's last command, failed sends
\* ------------------------------------------------------------------------

\* C34: at the end of every arbitration cycle DROWNING_ACTIVE and
\* OBSTRUCTION_ACTIVE are not both set, and a cycle that ends
\* OBSTRUCTION_ACTIVE has called no send of DROWNING and written none, the
\* cycles of the hold with a negative obstruction input and hazardFlag true
\* included.
C34_AlertsMutuallyExclusive ==
    ArbitrationCycle
        => /\ ~(last_drowning_state /\ obstruction_alert_active)
           /\ obstruction_alert_active
                  => /\ CMD_DROWNING \notin Elems(cyc.calls)
                     /\ CMD_DROWNING \notin Elems(cyc.wire)

\* A cycle of the hold: the perimeter is sampled and read negative,
\* hazardFlag is true and the cycle ends OBSTRUCTION_ACTIVE; the cycle that
\* entered the state had overridden an active drowning alert.
C34_Witness ==
    /\ ArbitrationCycle
    /\ cyc.was_active /\ obstruction_alert_active
    /\ NegativeObstructionRead(cyc)
    /\ cyc.detected
    /\ cyc.elapsed < Seconds(obstruction_min_duration)
    /\ ~last_drowning_state
    /\ cyc.calls = <<>>

\* C35: with the sink connected and every write so far accepted, at the end
\* of an arbitration cycle that leaves the machine OBSTRUCTION_ACTIVE the
\* last command the sink received is OBSTRUCTION, the cycle in which the
\* obstruction preempts an active drowning alert included.
C35_SinkHoldsObstruction ==
    [][(ArbitrationCycleStep /\ obstruction_alert_active' /\ tx'.connected)
        => sink' = <<CMD_OBSTRUCTION>>]_vars

\* C36: the arbitration state advances whatever the sends do.  In every
\* arbitration cycle, failed and skipped sends included: the session keeps
\* running; a call of send_obstruction_alert leaves obstruction_signal_sent
\* set and a call of send_drowning_alert leaves DROWNING_ACTIVE set; a call
\* of send_clear_alert goes with the release of the obstruction or with the
\* end of DROWNING_ACTIVE; and a cycle that starts with the signal recorded
\* as sent does not call that send again.
C36_StateAdvancesWithoutSink ==
    [][ArbitrationCycleStep
         => /\ running'
            /\ CMD_OBSTRUCTION \in Elems(cyc'.calls)
                   => obstruction_signal_sent' /\ obstruction_alert_active'
            /\ CMD_DROWNING \in Elems(cyc'.calls) => last_drowning_state'
            /\ CMD_CLEAR \in Elems(cyc'.calls)
                   => \/ /\ cyc'.was_active
                         /\ ~obstruction_alert_active'
                         /\ ~obstruction_signal_sent'
                      \/ cyc'.was_drowning /\ ~last_drowning_state'
            /\ (obstruction_alert_active /\ obstruction_signal_sent)
                   => CMD_OBSTRUCTION \notin Elems(cyc'.calls)
            /\ last_drowning_state
                   => CMD_DROWNING \notin Elems(cyc'.calls)]_vars

\* A positive cycle of an episode whose OBSTRUCTION never reached the sink
\* (the sink has received nothing and the transmitter is disconnected after
\* a failed write): the signal is recorded as sent and the cycle calls no
\* send.
C36_Witness ==
    /\ ArbitrationCycle
    /\ cyc.was_active /\ cyc.current_obstruction
    /\ cyc.calls = <<>>
    /\ obstruction_signal_sent
    /\ sink = <<>> /\ ~tx.connected
    /\ running

\* ------------------------------------------------------------------------
\* PerimeterMonitor: the single-shot check has no memory
\* ------------------------------------------------------------------------

\* C33: a call of check_obstruction leaves the obstructed flag, the stored
\* percentage, the scanning threads with their debounce counters, the
\* reference, the mask, the vertices and the parameters as they were, and
\* gives a frame the result an earlier call gave for it on the same
\* configuration, whatever was checked between the two calls.
C33_CheckHasNoMemory ==
    [][CheckCalled
         => /\ UNCHANGED <<obstruction_detected, current_obstruction_pct,
                           loops, notified, reference_frame, mask,
                           perimeter_points, drawing_complete,
                           detection_parameters, monitoring_active,
                           stop_flag>>
            /\ (earlier.valid /\ api'.args = earlier.args)
                   => api'.result = earlier.result]_vars

\* A check called while a scanning thread holds one positive read in its
\* debounce counter and the stored percentage is its last measure; the
\* frame is obstructed at another percentage, and an earlier check of
\* another frame on the same configuration was not.
C33_Witness ==
    /\ api.op = "check_obstruction"
    /\ monitoring_active
    /\ \E t \in Threads : /\ loops[t].pc \notin {"unborn", "done"}
                          /\ loops[t].consecutive_detections = 1
    /\ api.result.obstructed
    /\ ~PctEq(api.result.percentage, current_obstruction_pct)
    /\ ~obstruction_detected
    /\ earlier.valid
    /\ earlier.args # api.args
    /\ ~earlier.result.obstructed

\* ------------------------------------------------------------------------
\* PerimeterMonitor: the configuration invariant
\* ------------------------------------------------------------------------

\* A configured engine has at least 3 vertices, a mask and a reference.
ConfigurationComplete ==
    drawing_complete
        => /\ Len(perimeter_points) >= min_perimeter_points
           /\ mask.present
           /\ reference_frame.present

\* The same between two calls of the owner.
ConfigurationCompleteAtRest == caller = Resting => ConfigurationComplete

\* C32: in every reachable state where the engine is configured it has at
\* least 3 vertices, a mask and a reference frame, and the mask has the
\* resolution of the reference frame, whatever the sequence of configure,
\* update_background with a frame of any resolution, check, start and
\* reset.
C32_ConfigurationInvariant ==
    /\ ConfigurationComplete
    /\ drawing_complete => mask.shape = reference_frame.shape

\* ------------------------------------------------------------------------
\* PerimeterMonitor: a configure attempt discards the configuration
\* ------------------------------------------------------------------------

\* The step is the return of a configure operation.
ConfigureReturns == api'.bit # api.bit /\ api'.op \in ConfigureOps

\* When a configure operation returns, the scanning flags are those of a
\* stopped scan and the configuration the engine had before the call is
\* gone: an attempt with fewer than 3 vertices returns false, and after
\* every attempt that returns false the engine is not configured, it has
\* no mask and no reference and, for the set_* operations, no vertices; an
\* accepted attempt leaves the vertices it was given.
ConfigureDiscards ==
    ConfigureReturns
        => /\ ~monitoring_active'
           /\ monitoring_thread > 0 => stop_flag'
           /\ (api'.args.vertices < min_perimeter_points
                  /\ api'.op # "draw_perimeter_interactive")
                  => api'.ret = RetFalse
           /\ api'.ret = RetFalse
                  => /\ ~drawing_complete'
                     /\ mask' = NoMask
                     /\ reference_frame' = NoReference
                     /\ api'.op # "draw_perimeter_interactive"
                            => perimeter_points' = <<>>
           /\ api'.ret = RetTrue
                  => /\ Len(perimeter_points') = api'.args.vertices
                     /\ drawing_complete' = (api'.op # "set_perimeter_points")

\* A configure operation has returned and nothing has started the scanning
\* since.
AfterConfigure ==
    /\ caller = Resting
    /\ api.op \in ConfigureOps
    /\ ~monitoring_active

\* After a configure operation the scanning is stopped: no loop writes the
\* obstruction state or calls the callback.
ConfigureStopsScanning ==
    AfterConfigure
        => /\ obstruction_detected' = obstruction_detected
           /\ current_obstruction_pct' = current_obstruction_pct
           /\ notified' = notified

\* C37: every configure operation first stops the scanning, so that once
\* it has returned no scanning loop writes the obstruction state or calls
\* the callback until scanning is started again, and discards the
\* configuration the engine had: after a rejected attempt the engine is
\* not configured and has no polygon, no mask and no reference.
C37_ConfigureDiscardsFirst ==
    [][ConfigureDiscards /\ ConfigureStopsScanning]_vars

\* ------------------------------------------------------------------------
\* PerimeterMonitor: one scanning loop
\* ------------------------------------------------------------------------

\* start_continuous_monitoring called while scanning is active returns true
\* and starts no second loop.
StartWhileActiveStartsNothing ==
    [][(caller = Resting /\ monitoring_active
           /\ api'.bit # api.bit /\ api'.op = "start_continuous_monitoring")
         => /\ api'.ret = RetTrue
            /\ UNCHANGED <<loops, monitoring_thread, monitoring_active,
                           stop_flag>>]_vars

\* The thread passes the loop test and starts an iteration.
Iterates(t) == loops[t].pc = "while_flag" /\ loops'[t].pc = "fetch"

\* C38: at most one scanning loop runs at any time.  After any sequence of
\* start and stop, a stop whose join timed out included, only the loop of
\* the last start goes on: a loop that a stop has abandoned starts no
\* further iteration next to the loop started after it.
C38_SingleScanningLoop ==
    [][\A t \in Threads : Iterates(t) => t = monitoring_thread]_vars

\* ------------------------------------------------------------------------
\* BluetoothTransmitter: the pulse thread against the owner's commands
\* ------------------------------------------------------------------------

\* A send_*_alert has returned true and the owner has called nothing since:
\* its command is the last one the sink received.
CallerCommandIsLast ==
    (commander = Idle /\ sent.op \in AlertOps /\ sent.ret = RetTrue)
        => /\ last_writer = "caller"
           /\ sink = <<sent.command>>

\* The thread is about to write a command.
PulseWriting(t) ==
    pulse_threads[t] \in {"on", "on_write", "off", "off_write"}

\* No two pulse threads are about to write.
OnePulseWriter ==
    \A t, u \in PulseThreads :
        (PulseWriting(t) /\ PulseWriting(u)) => t = u

\* C39: under every interleaving of the pulse threads with the owner, once
\* a send_*_alert (which calls stop_obstruction_pulse first) has returned,
\* the command it wrote is the last one the sink receives, and after stop
\* followed by start_obstruction_pulse at most one pulse thread writes.
C39_PulseVersusCommands ==
    /\ CallerCommandIsLast
    /\ OnePulseWriter

\* ------------------------------------------------------------------------
\* PerimeterMonitor: lock discipline
\* ------------------------------------------------------------------------

\* Places of a scanning thread inside a with self.lock block.
LoopLocked == {"pct_body", "flag_body", "cb_body"}

\* Places of the owner inside a with self.lock block.
OwnerLocked ==
    {"stop_body", "reset_reference", "reset_mask", "reset_state",
     "read_body", "update_body"}

\* The lock is held only inside the with self.lock blocks: not by a thread
\* that sleeps, joins, fetches a frame, runs a check, runs the callback or
\* waits for the lock.
NoBlockingUnderLock ==
    /\ \A t \in Threads : lock = Thread(t) <=> loops[t].pc \in LoopLocked
    /\ lock = Owner <=> caller.pc \in OwnerLocked

\* A step that changes the obstructed flag or the percentage is made by
\* the thread that holds the lock, as the end of its with self.lock block;
\* so are the reads of get_status and draw_overlay.
AccessUnderLock ==
    /\ (\/ obstruction_detected' # obstruction_detected
        \/ current_obstruction_pct' # current_obstruction_pct)
           => /\ lock # Free /\ lock' = Free
              /\ \/ lock = Owner /\ caller' # caller
                 \/ \E t \in Threads :
                        lock = Thread(t) /\ loops'[t] # loops[t]
    /\ (caller.pc = "read_body" /\ caller' # caller) => lock = Owner
    /\ \A t \in Threads :
           (loops[t].pc = "cb_body" /\ loops'[t] # loops[t])
               => lock = Thread(t)

\* C31: every write of the obstructed flag and of the percentage after
\* construction, and every read of them by get_status and draw_overlay, is
\* made by the thread that holds the lock; the lock is never held by a
\* thread that sleeps, joins, fetches a frame, runs a check or runs the
\* callback; and a callback that calls get_status does not deadlock: the
\* lock it waits for is released, as long as a thread inside a with
\* self.lock block is not suspended for ever.
C31_LockDiscipline ==
    /\ []NoBlockingUnderLock
    /\ [][AccessUnderLock]_vars
    /\ \A t \in Threads :
           (loops[t].pc = "cb_lock")
               ~> (lock = Free \/ loops[t].pc = "cb_body")

\* The callback of the scanning thread reads the status under the lock
\* while the owner waits for the lock in stop_continuous_monitoring.
C31_Witness ==
    /\ lock = Thread(1)
    /\ loops[1].pc = "cb_body"
    /\ caller.pc = "stop_lock"

====
